---- MODULE Spec2Model ----
(***************************************************************************)
(* Model of the whisper-dictation daemon core (whisper_dictation/daemon.py *)
(* with the IPC server object of whisper_dictation/ipc.py it owns).        *)
(*                                                                         *)
(* The daemon runs on one asyncio event loop.  Every coroutine runs        *)
(* without interruption up to its next real suspension point, so one       *)
(* action models the code between two suspension points.  Daemon.start     *)
(* has one suspension point (awaiting asyncio.start_unix_server inside     *)
(* IPCServer.start); with no client connection open and no recording       *)
(* stream, Daemon.stop, pause and resume run without suspending.           *)
(* Several tasks may call into the same Daemon object.                     *)
(*                                                                         *)
(* Spec and SpecSeq are the daemon lifecycle.  SpecRun adds Daemon.run,    *)
(* SpecRec the recording handlers of DaemonMessageHandler with the         *)
(* recorder child processes, and SpecIpc the connections served by         *)
(* IPCServer._handle_client through MessageHandler.handle.                 *)
(***************************************************************************)
EXTENDS Integers, Sequences, FiniteSets, TLC

\* ---------------------------------------------------------------- bounds
NumTasks == 2
MaxTime == 3
MaxProcs == 2
MaxChunks == 2
MaxCloses == 3
MaxSends == 3

Tasks == 1..NumTasks

\* ------------------------------------------------------- program values
\* models.DaemonState
STARTING == "starting"
RUNNING == "running"
PAUSED == "paused"
STOPPING == "stopping"
STOPPED == "stopped"

DaemonState == {STARTING, RUNNING, PAUSED, STOPPING, STOPPED}

\* Python None for the optional fields: <<>> is None, <<v>> holds v.
None == <<>>

Some(v) == <<v>>

\* Python truthiness of an optional number (None and 0 are falsy).
Truthy(x) == x /= None /\ x[1] /= 0

\* signals consumed by handle_signal
SIGTERM == "SIGTERM"
SIGINT == "SIGINT"
SIGUSR1 == "SIGUSR1"

Signals == {SIGTERM, SIGINT, SIGUSR1}

\* ------------------------------------------------------ the environment
\* os.getpid() of the process that runs this daemon
GetPid == 4242

\* processes alive on the host: this one, a peer owned by the same user,
\* and one owned by another user (os.kill on it is refused with EPERM)
OwnUserPids == {GetPid, 4243}

OtherUserPids == {1}

LivePids == OwnUserPids \cup OtherUserPids

\* a process id no process has
DeadPids == {99999}

\* the PID file: NoFile when absent, otherwise its text
NoFile == "<absent>"

PidTexts == {"4242", "4243", "1", "99999", "not_a_number"}

\* what start() can meet in the environment: nothing, a PID file that
\* cannot be written, a socket that cannot be bound
Faults == {"none", "pid_unwritable", "bind_fails"}

\* config.daemon.socket_path values: unset, or a configured path
CfgSocketPaths == {"", "/cfg/daemon.sock"}

\* config.get_socket_path()
get_socket_path == "/data/whisper-dictation/daemon.sock"

VARIABLES
    state,              \* Daemon.state
    start_time,         \* Daemon.start_time
    pause_time,         \* Daemon.pause_time
    total_paused_time,  \* Daemon.total_paused_time
    shutdown_event,     \* Daemon._shutdown_event is set
    pause_event,        \* Daemon._pause_event is set
    ipc_server,         \* Daemon.ipc_server: None or the IPCServer object,
                        \* named by the task whose start() created it
    srv,                \* per IPCServer object: its asyncio server is
                        \* "none", "pending" (listening, not yet assigned
                        \* to IPCServer.server), "assigned", or "closed"
                        \* (assigned and closed, IPCServer.stop not done)
    orphaned,           \* a listening asyncio server no object refers to
    socket_file,        \* None or the path of the existing socket file
    pid_file,           \* NoFile or the text of the PID file
    cfg_socket_path,    \* config.daemon.socket_path
    now,                \* time.time()
    pc,                 \* per task: "idle" or "start_await"
    frame,              \* per task: locals and step log of its start()
    ev,                 \* the call step taken last (history variable)
    run_elapsed,        \* time since the last recorded start not spent
                        \* PAUSED (history variable)
    current_stream,     \* Daemon.current_stream: None or the AudioStream,
                        \* named by its recorder process
    audio_recorder,     \* Daemon.audio_recorder has been created
    alive,              \* the recorder child processes that have not exited
    signalled,          \* those of them that were sent SIGTERM
    spawned,            \* number of recorder processes spawned so far
    loc,                \* per task: locals of its suspended handler or stop()
    resp,               \* the handler step taken last (history variable)
    run,                \* position of the task executing Daemon.run
    conn,               \* per task: the client connection it serves
    waits_conns,        \* asyncio.Server.wait_closed waits for the open
                        \* connections (it does since Python 3.12)
    codec,              \* a message, its serialization and what is
                        \* deserialized from it
    probe,              \* a call of an AudioRecorder method: the registry,
                        \* the backends available, the probes made, the
                        \* result
    refused,            \* a start() was refused with SingleInstanceError
                        \* for the PID file that exists (history variable)
    scope,              \* an AudioStream used in 'async with': its
                        \* recorder process and how far the block has run
    client              \* an IPCClient, the socket it connects to and the
                        \* server's end of its connection

dvars == <<state, start_time, pause_time, total_paused_time, shutdown_event,
           pause_event, ipc_server>>

osvars == <<srv, orphaned, socket_file, pid_file>>

\* recording, run loop and connections
recvars == <<current_stream, audio_recorder, alive, signalled, spawned, loc,
             resp>>

\* the message and the AudioRecorder call examined on their own
pvars == <<codec, probe, refused, scope, client>>

xvars == <<current_stream, audio_recorder, alive, signalled, spawned, loc,
           resp, run, conn, waits_conns, codec, probe, refused, scope,
           client>>

vars == <<state, start_time, pause_time, total_paused_time, shutdown_event,
          pause_event, ipc_server, srv, orphaned, socket_file, pid_file,
          cfg_socket_path, now, pc, frame, ev, run_elapsed, current_stream,
          audio_recorder, alive, signalled, spawned, loc, resp, run, conn,
          waits_conns, codec, probe, refused, scope, client>>

\* --------------------------------------------------------------- helpers
\* int(text.strip()): Some(number), or None when it raises ValueError
ParseInt_swallow(text) ==
    CASE text = "4242" -> Some(4242)
      [] text = "4243" -> Some(4243)
      [] text = "1" -> Some(1)
      [] OTHER -> Some(99999)

ParseInt(text) ==
    CASE text = "4242" -> Some(4242)
      [] text = "4243" -> Some(4243)
      [] text = "1" -> Some(1)
      [] text = "99999" -> Some(99999)
      [] OTHER -> None

\* str(pid)
Str(pid) ==
    CASE pid = 4242 -> "4242"
      [] pid = 4243 -> "4243"
      [] pid = 1 -> "1"
      [] pid = 99999 -> "99999"

\* os.kill(pid, 0): "ok", or the OSError it raises
os_kill(pid) ==
    IF pid \notin LivePids THEN "ProcessLookupError"
    ELSE IF pid \in OtherUserPids THEN "PermissionError"
    ELSE "ok"

_is_process_running_always(pid) == os_kill(pid) \in {"ok", "ProcessLookupError"}

\* Daemon._is_process_running: False on any OSError
_is_process_running(pid) == os_kill(pid) = "ok"

\* the socket path start() binds
SocketPath == IF cfg_socket_path /= "" THEN cfg_socket_path ELSE get_socket_path

get_uptime_unfrozen ==
    IF ~Truthy(start_time) THEN 0
    ELSE LET uptime == now - start_time[1] - total_paused_time
         IN IF uptime > 0 THEN uptime ELSE 0

\* Daemon.get_uptime
get_uptime ==
    IF ~Truthy(start_time) THEN 0
    ELSE LET uptime == now - start_time[1] - total_paused_time
             adj == IF state = PAUSED /\ Truthy(pause_time)
                    THEN uptime - (now - pause_time[1])
                    ELSE uptime
         IN IF adj > 0 THEN adj ELSE 0

CanStart_paused == state \in {STOPPED, PAUSED}

\* the guards of the three transitions
CanStart == state = STOPPED

CanPause_loose == state /= STOPPED

CanPause == state = RUNNING

CanResume_any == state /= STOPPED

CanResume == state = PAUSED

StopIsNoop_never == FALSE

\* stop() returns at once
StopIsNoop == state = STOPPED

StateBeforeListen_early == RUNNING

StateBeforeListen_late == STOPPED

\* the state start() assigns before it writes the PID file and starts the
\* IPC server
StateBeforeListen == STARTING

get_status_loaded ==
    [state |-> state, uptime |-> get_uptime, model_loaded |-> TRUE]

\* Daemon.get_status
get_status ==
    [state |-> state, uptime |-> get_uptime, model_loaded |-> FALSE]

\* the state a DaemonError message names: f"... in state {self.state}"
ErrorNames == state

\* some asyncio server of this process is listening
ListenerOpen == orphaned \/ \E t \in Tasks : srv[t] \in {"pending", "assigned"}

\* The history variable ev describes the call step taken last:
\*   kind   "call" (a call up to its return or first suspension),
\*          "cont" (a suspended call resumed), "none" (no call step)
\*   op     the Daemon method run; sig the signal that led to it
\*   from   Daemon.state when the step began
\*   out    "ok", "suspended", or the exception raised
\*   named  the state named in the exception message
\*   pidf   the PID file the call found; fault the environment fault
\*   edges  the assignments to Daemon.state, in order, as <<old, new>>
\*   steps  the effects of start() so far, in program order
NoEvent ==
    [kind |-> "none", op |-> "none", sig |-> "none", from |-> STOPPED,
     out |-> "none", named |-> "none", pidf |-> NoFile, fault |-> "none",
     edges |-> <<>>, steps |-> <<>>]

Event(kind, op, sig, out, named, pidf, fault, edges, steps) ==
    [kind |-> kind, op |-> op, sig |-> sig, from |-> state, out |-> out,
     named |-> named, pidf |-> pidf, fault |-> fault, edges |-> edges,
     steps |-> steps]

NoFrame == [pidf |-> NoFile, steps |-> <<>>]

\* The history variable resp describes the handler step taken last:
\*   kind   "call", "cont" or "none", as for ev
\*   op     the handler, or "stop" for Daemon.stop closing a stream
\*   out    "suspended", or the response returned: "status" or "error"
\*   code   ErrorResponse.code (0 when the response is no error)
\*   msg    the class of the error message
\*   found  Daemon.current_stream when the handler was called
NoResp ==
    [kind |-> "none", op |-> "none", out |-> "none", code |-> 0,
     msg |-> "none", found |-> None]

Response(kind, op, out, code, msg, found) ==
    [kind |-> kind, op |-> op, out |-> out, code |-> code, msg |-> msg,
     found |-> found]

\* locals of a suspended handler: the stream it found, the device it asked
\* for, the stream it is closing, the state and signal its stop() began with
NoLoc == [found |-> None, device_id |-> "none", closing |-> None,
          from |-> STOPPED, sig |-> "none"]

\* A connection, as _handle_client sees it:
\*   phase    "none" (no client), "read" (accepted, the request not yet
\*            read), "start" (its handler suspended in Daemon.start),
\*            "blocked" (its handler suspended in Server.wait_closed),
\*            "closed" (closed by the server; kept for the connection
\*            closed last only)
\*   frame    what the client sent; more: it sent a second frame after it
\*   read     request frames read; written: response frames written
\*   handler  the handler handle() dispatched to, "none" when it did not
\*   fault    the exception raised inside the handler, "none" otherwise
\*   rtype    the response written: "status" or "error", with the error's
\*            code and message class, or the state and model_loaded of
\*            the Status response
NoConn ==
    [phase |-> "none", frame |-> "none", more |-> FALSE, read |-> 0,
     written |-> 0, handler |-> "none", fault |-> "none", rtype |-> "none",
     rcode |-> 0, rmsg |-> "none", rstate |-> "none", rloaded |-> FALSE]

\* no message is examined
NoCodec == [phase |-> "none"]

\* no AudioRecorder call is examined
NoProbe == [phase |-> "none"]

\* no AudioStream is in use
NoScope == [phase |-> "none"]

\* no IPCClient exists
NoClient == [phase |-> "none"]

\* ------------------------------------------------------------------ Init
\* Daemon.__init__, with no recorder, no run() and no connection
XInit ==
    /\ current_stream = None
    /\ audio_recorder = FALSE
    /\ alive = {}
    /\ signalled = {}
    /\ spawned = 0
    /\ loc = [t \in Tasks |-> NoLoc]
    /\ resp = NoResp
    /\ run = "none"
    /\ conn = [t \in Tasks |-> NoConn]
    /\ refused = FALSE
    /\ scope = NoScope
    /\ client = NoClient

DaemonInit ==
    /\ state = STOPPED
    /\ start_time = None
    /\ pause_time = None
    /\ total_paused_time = 0
    /\ shutdown_event = FALSE
    /\ pause_event = TRUE
    /\ ipc_server = None
    /\ srv = [t \in Tasks |-> "none"]
    /\ orphaned = FALSE
    /\ socket_file = None
    /\ pid_file = NoFile
    /\ cfg_socket_path \in CfgSocketPaths
    /\ now = 1
    /\ pc = [t \in Tasks |-> "idle"]
    /\ frame = [t \in Tasks |-> NoFrame]
    /\ ev = NoEvent
    /\ run_elapsed = 0

Init ==
    /\ DaemonInit
    /\ XInit
    /\ waits_conns = FALSE
    /\ codec = NoCodec
    /\ probe = NoProbe

\* --------------------------------------------------------- Daemon.start
\* a call that raises before changing anything
Raise(op, sig, exc, named, fault) ==
    /\ ev' = Event("call", op, sig, exc, named, pid_file, fault, <<>>, <<>>)
    /\ UNCHANGED <<dvars, osvars, cfg_socket_path, now, pc, frame,
                   run_elapsed>>

\* daemon.py 211-229: STARTING, start time, PID file, IPCServer.start up to
\* the await of asyncio.start_unix_server
StartProceed(t, fault) ==
    /\ state' = StateBeforeListen
    /\ start_time' = Some(now)
    /\ run_elapsed' = 0
    /\ UNCHANGED <<pause_time, total_paused_time, shutdown_event, pause_event,
                   cfg_socket_path, now>>
    /\ IF fault = "pid_unwritable"
       THEN \* _write_pid_file raises PermissionError
            /\ ev' = Event("call", "start", "none", "PermissionError", "none",
                           pid_file, fault, <<<<state, StateBeforeListen>>>>,
                           <<"state:=STARTING", "start_time">>)
            /\ UNCHANGED <<ipc_server, osvars, pc, frame>>
       ELSE /\ pid_file' = Str(GetPid)
            /\ ipc_server' = Some(t)
            /\ orphaned' = (orphaned \/ srv[t] /= "none")
            /\ IF fault = "bind_fails"
               THEN \* asyncio.start_unix_server raises OSError
                    /\ srv' = [srv EXCEPT ![t] = "none"]
                    /\ socket_file' = None
                    /\ ev' = Event("call", "start", "none", "OSError", "none",
                                   pid_file, fault, <<<<state, StateBeforeListen>>>>,
                                   <<"state:=STARTING", "start_time",
                                     "pid_file">>)
                    /\ UNCHANGED <<pc, frame>>
               ELSE /\ srv' = [srv EXCEPT ![t] = "pending"]
                    /\ socket_file' = Some(SocketPath)
                    /\ pc' = [pc EXCEPT ![t] = "start_await"]
                    /\ frame' = [frame EXCEPT ![t] =
                                   [pidf |-> pid_file,
                                    steps |-> <<"state:=STARTING", "start_time",
                                                "pid_file", "ipc_listening">>]]
                    /\ ev' = Event("call", "start", "none", "suspended",
                                   "none", pid_file, fault,
                                   <<<<state, StateBeforeListen>>>>, frame'[t].steps)

\* daemon.py 201-229: start() up to its suspension point
StartCall(t, fault) ==
    /\ pc[t] = "idle"
    /\ IF ~CanStart
       THEN Raise("start", "none", "DaemonError", ErrorNames, fault)
       ELSE IF pid_file /= NoFile /\ ParseInt(pid_file) = None
       THEN Raise("start", "none", "ValueError", "none", fault)
       ELSE IF pid_file /= NoFile
               /\ _is_process_running(ParseInt(pid_file)[1])
       THEN Raise("start", "none", "SingleInstanceError", "none", fault)
       ELSE StartProceed(t, fault)

\* ipc.py 159 and daemon.py 231: the await returns, IPCServer.server is
\* assigned, the state becomes RUNNING and start() returns
StartResume(t) ==
    /\ pc[t] = "start_await"
    /\ srv' = [srv EXCEPT ![t] = "assigned"]
    /\ state' = RUNNING
    /\ pc' = [pc EXCEPT ![t] = "idle"]
    /\ frame' = [frame EXCEPT ![t] = NoFrame]
    /\ ev' = Event("cont", "start", "none", "ok", "none", frame[t].pidf,
                   "none", <<<<state, RUNNING>>>>,
                   Append(frame[t].steps, "state:=RUNNING"))
    /\ UNCHANGED <<start_time, pause_time, total_paused_time, shutdown_event,
                   pause_event, ipc_server, orphaned, socket_file, pid_file,
                   cfg_socket_path, now, run_elapsed>>

\* ---------------------------------------------------------- Daemon.stop
\* IPCServer.stop on the daemon's current server object
IpcStopSrv ==
    IF ipc_server /= None /\ srv[ipc_server[1]] = "assigned"
    THEN [srv EXCEPT ![ipc_server[1]] = "none"]
    ELSE srv

StopBody(sig) ==
    IF StopIsNoop
    THEN /\ ev' = Event("call", "stop", sig, "ok", "none", pid_file, "none",
                        <<>>, <<>>)
         /\ UNCHANGED <<dvars, osvars, cfg_socket_path, now, pc, frame,
                        run_elapsed>>
    ELSE /\ state' = STOPPED
         /\ srv' = IpcStopSrv
         /\ socket_file' = IF ipc_server /= None THEN None ELSE socket_file
         /\ pid_file' = NoFile
         /\ shutdown_event' = TRUE
         /\ ev' = Event("call", "stop", sig, "ok", "none", pid_file, "none",
                        <<<<state, STOPPING>>, <<STOPPING, STOPPED>>>>, <<>>)
         /\ UNCHANGED <<start_time, pause_time, total_paused_time,
                        pause_event, ipc_server, orphaned, cfg_socket_path,
                        now, pc, frame, run_elapsed>>

Stop(t) ==
    /\ pc[t] = "idle"
    /\ StopBody("none")

\* ------------------------------------------------- Daemon.pause / resume
PauseBody(sig) ==
    IF ~CanPause
    THEN Raise("pause", sig, "DaemonError", ErrorNames, "none")
    ELSE /\ state' = PAUSED
         /\ pause_time' = Some(now)
         /\ pause_event' = FALSE
         /\ ev' = Event("call", "pause", sig, "ok", "none", pid_file, "none",
                        <<<<state, PAUSED>>>>, <<>>)
         /\ UNCHANGED <<start_time, total_paused_time, shutdown_event,
                        ipc_server, osvars, cfg_socket_path, now, pc, frame,
                        run_elapsed>>

Pause(t) ==
    /\ pc[t] = "idle"
    /\ PauseBody("none")

\* total_paused_time after resume()
ResumedTotal ==
    IF Truthy(pause_time)
    THEN total_paused_time + (now - pause_time[1])
    ELSE total_paused_time

ResumeBody(sig) ==
    IF ~CanResume
    THEN Raise("resume", sig, "DaemonError", ErrorNames, "none")
    ELSE /\ total_paused_time' = ResumedTotal
         /\ pause_time' = IF Truthy(pause_time) THEN None ELSE pause_time
         /\ state' = RUNNING
         /\ pause_event' = TRUE
         /\ ev' = Event("call", "resume", sig, "ok", "none", pid_file, "none",
                        <<<<state, RUNNING>>>>, <<>>)
         /\ UNCHANGED <<start_time, shutdown_event, ipc_server, osvars,
                        cfg_socket_path, now, pc, frame, run_elapsed>>

Resume(t) ==
    /\ pc[t] = "idle"
    /\ ResumeBody("none")

\* -------------------------------------------------- Daemon.handle_signal
HandleSignal_toggle_any(t, sig) ==
    /\ pc[t] = "idle"
    /\ IF sig \in {SIGTERM, SIGINT} THEN StopBody(sig)
       ELSE IF state = PAUSED THEN ResumeBody(sig)
       ELSE PauseBody(sig)

HandleSignal(t, sig) ==
    /\ pc[t] = "idle"
    /\ IF sig \in {SIGTERM, SIGINT} THEN StopBody(sig)
       ELSE IF state = RUNNING THEN PauseBody(sig)
       ELSE IF state = PAUSED THEN ResumeBody(sig)
       ELSE /\ ev' = Event("call", "none", sig, "ok", "none", pid_file,
                           "none", <<>>, <<>>)
            /\ UNCHANGED <<dvars, osvars, cfg_socket_path, now, pc, frame,
                           run_elapsed>>

\* ------------------------------------------------------- the environment
\* time.time() advances
Tick ==
    /\ now < MaxTime
    /\ now' = now + 1
    /\ run_elapsed' = IF start_time /= None /\ state /= PAUSED
                      THEN run_elapsed + 1 ELSE run_elapsed
    /\ ev' = NoEvent
    /\ UNCHANGED <<dvars, osvars, cfg_socket_path, pc, frame>>

\* another process leaves a PID file while this daemon is down
EnvWritePid(text) ==
    /\ state = STOPPED
    /\ \A t \in Tasks : pc[t] = "idle"
    /\ pid_file = NoFile
    /\ pid_file' = text
    /\ ev' = NoEvent
    /\ UNCHANGED <<dvars, srv, orphaned, socket_file, cfg_socket_path, now,
                   pc, frame, run_elapsed>>

\* the lifecycle calls, with no recording, no run() and no connection
Next ==
    \/ \E t \in Tasks, fault \in Faults :
           StartCall(t, fault) /\ UNCHANGED xvars
    \/ \E t \in Tasks : StartResume(t) /\ UNCHANGED xvars
    \/ \E t \in Tasks : Stop(t) /\ UNCHANGED xvars
    \/ \E t \in Tasks : Pause(t) /\ UNCHANGED xvars
    \/ \E t \in Tasks : Resume(t) /\ UNCHANGED xvars
    \/ \E t \in Tasks, sig \in Signals :
           HandleSignal(t, sig) /\ UNCHANGED xvars
    \/ Tick /\ UNCHANGED xvars
    \/ \E text \in PidTexts : EnvWritePid(text) /\ UNCHANGED xvars

Spec == Init /\ [][Next]_vars

\* the live peer process: another instance of the daemon
PeerPid == 4243

\* daemon.py 205-213 run by the peer: it finds no PID file and writes its
\* own process id, whatever this daemon is doing
PeerStarts ==
    /\ pid_file = NoFile
    /\ pid_file' = Str(PeerPid)
    /\ ev' = NoEvent
    /\ UNCHANGED <<dvars, srv, orphaned, socket_file, cfg_socket_path, now,
                   pc, frame, run_elapsed>>

\* the lifecycle calls next to a live peer instance; refused records that
\* a start() of this daemon was refused for the peer's PID file
InstNext ==
    \/ \E t \in Tasks, fault \in Faults :
           /\ StartCall(t, fault)
           /\ refused' = (refused \/ (/\ ev'.out = "SingleInstanceError"
                                      /\ pid_file = Str(PeerPid)))
           /\ UNCHANGED <<recvars, run, conn, waits_conns, codec, probe,
                          scope, client>>
    \/ \E t \in Tasks : StartResume(t) /\ UNCHANGED xvars
    \/ \E t \in Tasks : Stop(t) /\ UNCHANGED xvars
    \/ \E t \in Tasks, sig \in Signals :
           HandleSignal(t, sig) /\ UNCHANGED xvars
    \/ PeerStarts /\ UNCHANGED xvars

SpecInst == Init /\ [][InstNext]_vars

\* one caller at a time: every call is made by task 1 and runs to its end
\* before the next one is made
SeqNext ==
    \/ \E fault \in Faults : StartCall(1, fault) /\ UNCHANGED xvars
    \/ StartResume(1) /\ UNCHANGED xvars
    \/ Stop(1) /\ UNCHANGED xvars
    \/ Pause(1) /\ UNCHANGED xvars
    \/ Resume(1) /\ UNCHANGED xvars
    \/ \E sig \in Signals : HandleSignal(1, sig) /\ UNCHANGED xvars
    \/ Tick /\ UNCHANGED xvars
    \/ \E text \in PidTexts : EnvWritePid(text) /\ UNCHANGED xvars

SpecSeq == Init /\ [][SeqNext]_vars

\* ============================================================ Daemon.run
\* The task that executes run(); the other tasks call into the daemon while
\* it does.  run is "none" before run() is called, "start" while its
\* start() is suspended, "check" at the test of the while loop, "wait" while
\* suspended on the pause gate (_pause_event.wait() with the event clear),
\* "sleep" during asyncio.sleep(0.1), "returned" after the finally block.
RunTask == 1

Callers == Tasks \ {RunTask}

\* run() leaves everything of recording and connections alone
RunFrame ==
    UNCHANGED <<current_stream, audio_recorder, alive, signalled, spawned,
                loc, resp, conn, waits_conns, pvars>>

\* daemon.py 320: run() calls start(); an exception of start() leaves run()
RunCall(fault) ==
    /\ run = "none"
    /\ StartCall(RunTask, fault)
    /\ run' = IF ev'.out = "suspended" THEN "start" ELSE "none"
    /\ RunFrame

\* daemon.py 320-322: start() returns and the loop is entered
RunStartResume ==
    /\ run = "start"
    /\ StartResume(RunTask)
    /\ run' = "check"
    /\ RunFrame

\* daemon.py 322-326: the loop test.  With the shutdown event set the loop
\* ends and the finally block runs stop(); otherwise the pause gate is
\* passed at once when it is open and waited on when it is not.
RunCheck ==
    /\ run = "check"
    /\ RunFrame
    /\ IF shutdown_event
       THEN /\ StopBody("none")
            /\ run' = "returned"
       ELSE /\ run' = IF pause_event THEN "sleep" ELSE "wait"
            /\ ev' = NoEvent
            /\ UNCHANGED <<dvars, osvars, cfg_socket_path, now, pc, frame,
                           run_elapsed>>

\* daemon.py 323: the pause gate opens and the waiting loop goes on
RunWake ==
    /\ run = "wait"
    /\ pause_event
    /\ run' = "sleep"
    /\ ev' = NoEvent
    /\ RunFrame
    /\ UNCHANGED <<dvars, osvars, cfg_socket_path, now, pc, frame,
                   run_elapsed>>

\* daemon.py 324: the sleep of one loop iteration ends
RunSleepDone ==
    /\ run = "sleep"
    /\ run' = "check"
    /\ ev' = NoEvent
    /\ RunFrame
    /\ UNCHANGED <<dvars, osvars, cfg_socket_path, now, pc, frame,
                   run_elapsed>>

RunNext ==
    \/ \E fault \in Faults : RunCall(fault)
    \/ RunStartResume
    \/ RunCheck
    \/ RunWake
    \/ RunSleepDone
    \/ \E t \in Callers : Stop(t) /\ UNCHANGED xvars
    \/ \E t \in Callers : Pause(t) /\ UNCHANGED xvars
    \/ \E t \in Callers : Resume(t) /\ UNCHANGED xvars
    \/ \E t \in Callers, sig \in Signals :
           HandleSignal(t, sig) /\ UNCHANGED xvars

\* The event loop runs every task that is ready: a suspended start()
\* resumes, a sleep ends, the loop test is made, and a waiter on the pause
\* gate runs whenever the gate is opened.  Calls from outside are not
\* obliged to happen.
RunFairness ==
    /\ WF_vars(RunStartResume)
    /\ WF_vars(RunCheck)
    /\ WF_vars(RunSleepDone)
    /\ SF_vars(RunWake)

SpecRun == Init /\ [][RunNext]_vars /\ RunFairness

\* ======================================================= recording
\* AudioDevice ids a StartRecordingRequest may name: the default device, a
\* device the backend lists, and one it does not list
DeviceIds == {"default", "mic0", "absent"}

ListedDevices == {"mic0"}

\* what the audio backends answer when probed: one is available, or none
Backends == {"available", "none_available"}

\* what asyncio.create_subprocess_exec of the recorder does
SpawnOutcomes == {"spawned", "spawn_fails"}

RecordingActive_never == FALSE

\* daemon.py 119 and 163: a stream is held
RecordingActive == current_stream /= None

AfterClose_keep == current_stream

\* daemon.py 167 and 244: the current stream once close() has returned
AfterClose == None

\* AudioStream.close on stream p returns without suspending: terminate()
\* raises ProcessLookupError on a process that has exited, and the
\* exception is swallowed
CloseIsImmediate(p) == p \notin alive

HandlerFrame_unpauses ==
    /\ ev' = NoEvent
    /\ state' = IF state = PAUSED THEN RUNNING ELSE state
    /\ UNCHANGED <<start_time, pause_time, total_paused_time, shutdown_event,
                   pause_event, ipc_server, osvars, cfg_socket_path, now,
                   frame, run_elapsed, run, conn, waits_conns, pvars>>

\* a step of a recording handler touches nothing of the lifecycle
HandlerFrame ==
    /\ ev' = NoEvent
    /\ UNCHANGED <<dvars, osvars, cfg_socket_path, now, frame, run_elapsed,
                   run, conn, waits_conns, pvars>>

\* daemon.py 118-129: _handle_start_recording up to the device lookup
StartRecordingCall(t, device_id) ==
    /\ pc[t] = "idle"
    /\ HandlerFrame
    /\ IF RecordingActive
       THEN /\ resp' = Response("call", "start_recording", "error", 409,
                                "Recording already in progress",
                                current_stream)
            /\ UNCHANGED <<current_stream, audio_recorder, alive, signalled,
                           spawned, loc, pc>>
       ELSE /\ audio_recorder' = TRUE
            /\ pc' = [pc EXCEPT ![t] = "rec_lookup"]
            /\ loc' = [loc EXCEPT ![t] =
                         [NoLoc EXCEPT !.device_id = device_id]]
            /\ resp' = Response("call", "start_recording", "suspended", 0,
                                "none", current_stream)
            /\ UNCHANGED <<current_stream, alive, signalled, spawned>>

\* daemon.py 126-144: the device lookup returns; the recorder is asked to
\* start and probes its backends
StartRecordingLookup(t, backends) ==
    /\ pc[t] = "rec_lookup"
    /\ HandlerFrame
    /\ UNCHANGED <<current_stream, audio_recorder, alive, signalled, spawned>>
    /\ IF backends = "none_available"
       THEN /\ resp' = Response("cont", "start_recording", "error", 1,
                                "Failed to start recording", loc[t].found)
            /\ pc' = [pc EXCEPT ![t] = "idle"]
            /\ loc' = [loc EXCEPT ![t] = NoLoc]
       ELSE IF loc[t].device_id /= "default"
               /\ loc[t].device_id \notin ListedDevices
       THEN /\ resp' = Response("cont", "start_recording", "error", 404,
                                "Audio device not found", loc[t].found)
            /\ pc' = [pc EXCEPT ![t] = "idle"]
            /\ loc' = [loc EXCEPT ![t] = NoLoc]
       ELSE /\ resp' = Response("cont", "start_recording", "suspended", 0,
                                "none", loc[t].found)
            /\ pc' = [pc EXCEPT ![t] = "rec_spawn"]
            /\ UNCHANGED loc

StartRecordingSpawn_leaks(t, outcome) ==
    /\ pc[t] = "rec_spawn"
    /\ HandlerFrame
    /\ pc' = [pc EXCEPT ![t] = "idle"]
    /\ loc' = [loc EXCEPT ![t] = NoLoc]
    /\ UNCHANGED <<audio_recorder, signalled>>
    /\ IF outcome = "spawn_fails"
       THEN /\ resp' = Response("cont", "start_recording", "error", 1,
                                "Failed to start recording", loc[t].found)
            /\ current_stream' = Some(spawned + 1)
            /\ UNCHANGED <<alive, spawned>>
       ELSE /\ spawned < MaxProcs
            /\ spawned' = spawned + 1
            /\ alive' = alive \cup {spawned + 1}
            /\ current_stream' = Some(spawned + 1)
            /\ resp' = Response("cont", "start_recording", "status", 0,
                                "none", loc[t].found)

\* daemon.py 143-158: start_recording returns the stream of the recorder
\* process it spawned, or raises (ValueError for a non-positive sample
\* rate or channel count, RuntimeError for a backend that is not available
\* or a recorder that does not start) with no recorder left running; the
\* stream returned becomes the current one
StartRecordingSpawn(t, outcome) ==
    /\ pc[t] = "rec_spawn"
    /\ HandlerFrame
    /\ pc' = [pc EXCEPT ![t] = "idle"]
    /\ loc' = [loc EXCEPT ![t] = NoLoc]
    /\ UNCHANGED <<audio_recorder, signalled>>
    /\ IF outcome = "spawn_fails"
       THEN /\ resp' = Response("cont", "start_recording", "error", 1,
                                "Failed to start recording", loc[t].found)
            /\ UNCHANGED <<current_stream, alive, spawned>>
       ELSE /\ spawned < MaxProcs
            /\ spawned' = spawned + 1
            /\ alive' = alive \cup {spawned + 1}
            /\ current_stream' = Some(spawned + 1)
            /\ resp' = Response("cont", "start_recording", "status", 0,
                                "none", loc[t].found)

\* daemon.py 162-166 and audio.py 89-97: _handle_stop_recording up to the
\* wait for the recorder's exit
StopRecordingCall(t) ==
    /\ pc[t] = "idle"
    /\ HandlerFrame
    /\ UNCHANGED <<audio_recorder, alive, spawned>>
    /\ IF ~RecordingActive
       THEN /\ resp' = Response("call", "stop_recording", "error", 404,
                                "No recording in progress", current_stream)
            /\ UNCHANGED <<current_stream, signalled, loc, pc>>
       ELSE IF CloseIsImmediate(current_stream[1])
       THEN /\ current_stream' = AfterClose
            /\ resp' = Response("call", "stop_recording", "status", 0,
                                "none", current_stream)
            /\ UNCHANGED <<signalled, loc, pc>>
       ELSE /\ signalled' = signalled \cup {current_stream[1]}
            /\ pc' = [pc EXCEPT ![t] = "stoprec_wait"]
            /\ loc' = [loc EXCEPT ![t] =
                         [NoLoc EXCEPT !.found = current_stream,
                                       !.closing = current_stream]]
            /\ resp' = Response("call", "stop_recording", "suspended", 0,
                                "none", current_stream)
            /\ UNCHANGED current_stream

\* daemon.py 166-173: the recorder has exited, close() returns, the current
\* stream is cleared and the Status response returned
StopRecordingResume(t) ==
    /\ pc[t] = "stoprec_wait"
    /\ loc[t].closing[1] \notin alive
    /\ HandlerFrame
    /\ current_stream' = AfterClose
    /\ pc' = [pc EXCEPT ![t] = "idle"]
    /\ loc' = [loc EXCEPT ![t] = NoLoc]
    /\ resp' = Response("cont", "stop_recording", "status", 0, "none",
                        loc[t].found)
    /\ UNCHANGED <<audio_recorder, alive, signalled, spawned>>

\* a recorder process that was sent SIGTERM exits
ProcExit(p) ==
    /\ p \in signalled
    /\ alive' = alive \ {p}
    /\ signalled' = signalled \ {p}
    /\ ev' = NoEvent
    /\ resp' = NoResp
    /\ UNCHANGED <<dvars, osvars, cfg_socket_path, now, pc, frame,
                   run_elapsed, current_stream, audio_recorder, spawned, loc,
                   run, conn, waits_conns, pvars>>

\* daemon.py 248-253: the rest of stop() once the stream is dealt with
StopFinish(kind, sig, edges) ==
    /\ state' = STOPPED
    /\ srv' = IpcStopSrv
    /\ socket_file' = IF ipc_server /= None THEN None ELSE socket_file
    /\ pid_file' = NoFile
    /\ shutdown_event' = TRUE
    /\ ev' = Event(kind, "stop", sig, "ok", "none", pid_file, "none", edges,
                   <<>>)
    /\ UNCHANGED <<start_time, pause_time, total_paused_time, pause_event,
                   ipc_server, orphaned, cfg_socket_path, now, frame,
                   run_elapsed>>

\* daemon.py 233-246: stop() with recording: up to the wait for the
\* recorder's exit, or to its end when it has nothing to wait for
RecStop(t) ==
    /\ pc[t] = "idle"
    /\ UNCHANGED <<audio_recorder, alive, spawned, run, conn, waits_conns,
                   pvars>>
    /\ IF ~RecordingActive
       THEN /\ StopBody("none")
            /\ resp' = Response("call", "stop",
                                IF StopIsNoop THEN "noop" ELSE "ok", 0,
                                "none", current_stream)
            /\ UNCHANGED <<current_stream, signalled, loc>>
       ELSE IF StopIsNoop
       THEN /\ ev' = Event("call", "stop", "none", "ok", "none", pid_file,
                           "none", <<>>, <<>>)
            /\ resp' = Response("call", "stop", "noop", 0, "none",
                                current_stream)
            /\ UNCHANGED <<dvars, osvars, cfg_socket_path, now, pc, frame,
                           run_elapsed, current_stream, signalled, loc>>
       ELSE IF CloseIsImmediate(current_stream[1])
       THEN /\ current_stream' = AfterClose
            /\ StopFinish("call", "none",
                          <<<<state, STOPPING>>, <<STOPPING, STOPPED>>>>)
            /\ resp' = Response("call", "stop", "ok", 0, "none",
                                current_stream)
            /\ UNCHANGED <<signalled, loc, pc>>
       ELSE /\ state' = STOPPING
            /\ signalled' = signalled \cup {current_stream[1]}
            /\ pc' = [pc EXCEPT ![t] = "stop_close_wait"]
            /\ loc' = [loc EXCEPT ![t] =
                         [NoLoc EXCEPT !.found = current_stream,
                                       !.closing = current_stream,
                                       !.from = state]]
            /\ ev' = Event("call", "stop", "none", "suspended", "none",
                           pid_file, "none", <<<<state, STOPPING>>>>, <<>>)
            /\ resp' = Response("call", "stop", "suspended", 0, "none",
                                current_stream)
            /\ UNCHANGED <<start_time, pause_time, total_paused_time,
                           shutdown_event, pause_event, ipc_server, osvars,
                           cfg_socket_path, now, frame, run_elapsed,
                           current_stream>>

\* daemon.py 243-253: the recorder has exited, close() returns, the current
\* stream is cleared and stop() runs to its end
RecStopResume(t) ==
    /\ pc[t] = "stop_close_wait"
    /\ loc[t].closing[1] \notin alive
    /\ current_stream' = AfterClose
    /\ StopFinish("cont", "none", <<<<state, STOPPED>>>>)
    /\ pc' = [pc EXCEPT ![t] = "idle"]
    /\ loc' = [loc EXCEPT ![t] = NoLoc]
    /\ resp' = Response("cont", "stop", "ok", 0, "none", loc[t].found)
    /\ UNCHANGED <<audio_recorder, alive, signalled, spawned, run, conn,
                   waits_conns, pvars>>

\* the daemon with recording: start() and stop() called by any task, the
\* recording handlers invoked by any task, as tests/test_daemon_audio.py
\* invokes them
RecNext ==
    \/ \E t \in Tasks, fault \in Faults :
           /\ StartCall(t, fault)
           /\ resp' = NoResp
           /\ UNCHANGED <<current_stream, audio_recorder, alive, signalled,
                          spawned, loc, run, conn, waits_conns, pvars>>
    \/ \E t \in Tasks :
           /\ StartResume(t)
           /\ resp' = NoResp
           /\ UNCHANGED <<current_stream, audio_recorder, alive, signalled,
                          spawned, loc, run, conn, waits_conns, pvars>>
    \/ \E t \in Tasks : RecStop(t)
    \/ \E t \in Tasks : RecStopResume(t)
    \/ \E t \in Tasks, device_id \in DeviceIds :
           StartRecordingCall(t, device_id)
    \/ \E t \in Tasks, backends \in Backends :
           StartRecordingLookup(t, backends)
    \/ \E t \in Tasks, outcome \in SpawnOutcomes :
           StartRecordingSpawn(t, outcome)
    \/ \E t \in Tasks : StopRecordingCall(t)
    \/ \E t \in Tasks : StopRecordingResume(t)
    \/ \E p \in 1..MaxProcs : ProcExit(p)

SpecRec == Init /\ [][RecNext]_vars

\* a lifecycle call made while recording handlers run: it is no handler
\* step and touches nothing of the recording
LifecycleFrame ==
    /\ resp' = NoResp
    /\ UNCHANGED <<current_stream, audio_recorder, alive, signalled, spawned,
                   loc, run, conn, waits_conns, pvars>>

\* the daemon started, then paused and resumed by any task while the
\* recording handlers are invoked by any task
PauseRecNext ==
    \/ \E t \in Tasks : StartCall(t, "none") /\ LifecycleFrame
    \/ \E t \in Tasks : StartResume(t) /\ LifecycleFrame
    \/ \E t \in Tasks : Pause(t) /\ LifecycleFrame
    \/ \E t \in Tasks : Resume(t) /\ LifecycleFrame
    \/ Tick /\ LifecycleFrame
    \/ \E t \in Tasks, device_id \in DeviceIds :
           StartRecordingCall(t, device_id)
    \/ \E t \in Tasks, backends \in Backends :
           StartRecordingLookup(t, backends)
    \/ \E t \in Tasks, outcome \in SpawnOutcomes :
           StartRecordingSpawn(t, outcome)
    \/ \E t \in Tasks : StopRecordingCall(t)
    \/ \E t \in Tasks : StopRecordingResume(t)
    \/ \E p \in 1..MaxProcs : ProcExit(p)

SpecPauseRec == Init /\ [][PauseRecNext]_vars

\* ===================================================== IPC connections
\* models.IPCMessageType
MessageTypes ==
    {"start", "stop", "pause", "resume", "status", "error",
     "list_audio_devices", "start_recording", "stop_recording"}

\* What a client sends on a connection before it stops sending:
\*   "eof_in_length"  fewer than the 4 bytes of the length prefix
\*   "short_body"     a length prefix larger than the bytes that follow
\*   "bad_utf8"       a whole frame whose payload is no UTF-8 text
\*   "bad_json"       a whole frame whose text is no JSON
\*   "not_object"     JSON that is a number
\*   "no_type"        a JSON object without "type"
\*   "bad_type"       a JSON object whose "type" is no IPCMessageType
\*   a message type   {"type": <that type>, "data": null}
Frames ==
    {"eof_in_length", "short_body", "bad_utf8", "bad_json", "not_object",
     "no_type", "bad_type"} \cup MessageTypes

\* reader.readexactly(4) and reader.readexactly(length) both return
Complete(f) == f \notin {"eof_in_length", "short_body"}

\* message_data.decode("utf-8"): "text", or the exception raised
decode(f) == IF f = "bad_utf8" THEN "UnicodeDecodeError" ELSE "text"

\* ipc.deserialize_message: the type of the message, or the exception
deserialize_message(f) ==
    CASE f = "bad_json" -> [ok |-> FALSE, val |-> "ValueError"]
      [] f = "not_object" -> [ok |-> FALSE, val |-> "TypeError"]
      [] f = "no_type" -> [ok |-> FALSE, val |-> "ValueError"]
      [] f = "bad_type" -> [ok |-> FALSE, val |-> "ValueError"]
      [] OTHER -> [ok |-> TRUE, val |-> f]

\* MessageHandler._handlers, which DaemonMessageHandler.__init__ inherits
\* unchanged
_handlers ==
    [ty \in {"start", "stop", "pause", "resume", "status"} |->
        CASE ty = "start" -> "_handle_start"
          [] ty = "stop" -> "_handle_stop"
          [] ty = "pause" -> "_handle_pause"
          [] ty = "resume" -> "_handle_resume"
          [] ty = "status" -> "_handle_status"]

\* self._handlers.get(message.type): "none" for Python None
HandlerOf(ty) == IF ty \in DOMAIN _handlers THEN _handlers[ty] ELSE "none"

FaultResponse_status(exc) ==
    [fault |-> exc, rtype |-> "status", rcode |-> 0, rmsg |-> "none",
     rstate |-> state, rloaded |-> FALSE]

\* daemon.py 59-60, 71-72, 79-80, 87-88: 'except Exception as e: return
\* ErrorResponse(str(e))' of a handler whose Daemon call raised
FaultResponse(exc) ==
    [fault |-> exc, rtype |-> "error", rcode |-> 1, rmsg |-> exc,
     rstate |-> "none", rloaded |-> FALSE]

ErrorReply(code, msg) ==
    [fault |-> "none", rtype |-> "error", rcode |-> code, rmsg |-> msg,
     rstate |-> "none", rloaded |-> FALSE]

\* the StatusResponse get_status() builds once Daemon.state is st
StatusReply(st) ==
    [fault |-> "none", rtype |-> "status", rcode |-> 0, rmsg |-> "none",
     rstate |-> st, rloaded |-> get_status.model_loaded]

\* the connections once that of task t has become c: a connection closed
\* earlier is forgotten
Conns(t, c) ==
    [u \in Tasks |->
        IF u = t THEN c
        ELSE IF conn[u].phase = "closed" THEN NoConn ELSE conn[u]]

\* ipc.py 198-213: the response is written as one frame and the connection
\* closed
Answered(c, handler, reply) ==
    [c EXCEPT !.phase = "closed", !.read = 1, !.written = c.written + 1,
              !.handler = handler, !.fault = reply.fault,
              !.rtype = reply.rtype, !.rcode = reply.rcode,
              !.rmsg = reply.rmsg, !.rstate = reply.rstate,
              !.rloaded = reply.rloaded]

\* ipc.py 207-213: the connection is closed with nothing written
Dropped(c, read) == [c EXCEPT !.phase = "closed", !.read = read]

\* a listener of this process accepts connections
Accepting == orphaned \/ \E i \in Tasks : srv[i] = "assigned"

\* the step changes nothing of the daemon
Quiet ==
    /\ ev' = NoEvent
    /\ UNCHANGED <<dvars, osvars, cfg_socket_path, now, pc, frame,
                   run_elapsed>>

IpcFrame ==
    UNCHANGED <<current_stream, audio_recorder, alive, signalled, spawned,
                loc, resp, run, waits_conns, pvars>>

\* ipc.py 181-183: a client connects; _handle_client starts and waits in
\* readexactly
Connect(t) ==
    /\ Accepting
    /\ pc[t] = "idle"
    /\ conn[t].phase \in {"none", "closed"}
    /\ conn' = Conns(t, [NoConn EXCEPT !.phase = "read"])
    /\ Quiet
    /\ IpcFrame

\* IPCServer.stop reached from a handler blocks in wait_closed: the server
\* is assigned and wait_closed waits for the connection of this handler
StopBlocks ==
    /\ waits_conns
    /\ ipc_server /= None
    /\ srv[ipc_server[1]] \in {"assigned", "closed"}

\* ipc.py 181-213 with ipc.py 104-114 and daemon.py 52-92: what the client
\* sent (f, and a second frame after it when more) has arrived; the request
\* is read, decoded, dispatched and answered.  fault is what the start() of
\* a Start request meets.
Serve(t, f, more, fault) ==
    /\ conn[t].phase = "read"
    /\ fault = "none" \/ (f = "start" /\ CanStart)
    /\ IpcFrame
    /\ LET c == [conn[t] EXCEPT !.frame = f, !.more = more]
           msg == deserialize_message(c.frame)
           h == HandlerOf(msg.val)
       IN IF ~Complete(c.frame)
          THEN \* asyncio.IncompleteReadError
               /\ conn' = Conns(t, Dropped(c, 0))
               /\ Quiet
          ELSE IF decode(c.frame) /= "text"
          THEN \* UnicodeDecodeError, outside the inner try
               /\ conn' = Conns(t, Dropped(c, 1))
               /\ Quiet
          ELSE IF ~msg.ok
          THEN /\ conn' = Conns(t,
                             Answered(c, "none",
                                      ErrorReply(1, "Message processing error")))
               /\ Quiet
          ELSE IF h = "none"
          THEN /\ conn' = Conns(t,
                             Answered(c, "none",
                                      ErrorReply(1, "Unknown message type")))
               /\ Quiet
          ELSE IF h = "_handle_status"
          THEN /\ conn' = Conns(t,
                             Answered(c, h, StatusReply(get_status.state)))
               /\ Quiet
          ELSE IF h = "_handle_pause"
          THEN /\ PauseBody("none")
               /\ conn' = Conns(t,
                             Answered(c, h,
                                      IF ev'.out = "ok"
                                      THEN StatusReply(state')
                                      ELSE FaultResponse(ev'.out)))
          ELSE IF h = "_handle_resume"
          THEN /\ ResumeBody("none")
               /\ conn' = Conns(t,
                             Answered(c, h,
                                      IF ev'.out = "ok"
                                      THEN StatusReply(state')
                                      ELSE FaultResponse(ev'.out)))
          ELSE IF h = "_handle_start"
          THEN IF ~CanStart
               THEN /\ conn' = Conns(t,
                                  Answered(c, h,
                                           ErrorReply(409,
                                                      "Daemon already running")))
                    /\ Quiet
               ELSE /\ StartCall(t, fault)
                    /\ conn' = Conns(t,
                                  IF ev'.out = "suspended"
                                  THEN [c EXCEPT !.phase = "start",
                                                 !.read = 1, !.handler = h]
                                  ELSE Answered(c, h, FaultResponse(ev'.out)))
          ELSE \* _handle_stop
               IF StopIsNoop \/ ~StopBlocks
               THEN /\ StopBody("none")
                    /\ conn' = Conns(t,
                                  Answered(c, h, StatusReply(STOPPED)))
               ELSE /\ state' = STOPPING
                    /\ srv' = [srv EXCEPT ![ipc_server[1]] = "closed"]
                    /\ conn' = Conns(t,
                                  [c EXCEPT !.phase = "blocked", !.read = 1,
                                            !.handler = h])
                    /\ ev' = Event("call", "stop", "none", "suspended",
                                   "none", pid_file, "none",
                                   <<<<state, STOPPING>>>>, <<>>)
                    /\ UNCHANGED <<start_time, pause_time, total_paused_time,
                                   shutdown_event, pause_event, ipc_server,
                                   orphaned, socket_file, pid_file,
                                   cfg_socket_path, now, pc, frame,
                                   run_elapsed>>

\* daemon.py 57-58: the start() of a Start request returns and the Status
\* response is written
ServeStartResume(t) ==
    /\ conn[t].phase = "start"
    /\ StartResume(t)
    /\ conn' = Conns(t,
                  Answered(conn[t], conn[t].handler, StatusReply(RUNNING)))
    /\ IpcFrame

\* the daemon is started by a task, then serves connections
IpcNext ==
    \/ \E t \in Tasks, fault \in Faults :
           /\ conn[t].phase \in {"none", "closed"}
           /\ StartCall(t, fault)
           /\ UNCHANGED xvars
    \/ \E t \in Tasks :
           /\ conn[t].phase \in {"none", "closed"}
           /\ StartResume(t)
           /\ UNCHANGED xvars
    \/ \E t \in Tasks : Connect(t)
    \/ \E t \in Tasks, f \in Frames, more \in BOOLEAN, fault \in Faults :
           Serve(t, f, more, fault)
    \/ \E t \in Tasks : ServeStartResume(t)

IpcInit ==
    /\ DaemonInit
    /\ XInit
    /\ waits_conns \in BOOLEAN
    /\ codec = NoCodec
    /\ probe = NoProbe

SpecIpc == IpcInit /\ [][IpcNext]_vars

\* the event loop resumes a handler whose awaited start() can return
IpcFairness == \A t \in Tasks : WF_vars(ServeStartResume(t))

SpecIpcFair == IpcInit /\ [][IpcNext]_vars /\ IpcFairness

\* ================================================ message serialization
\* A Python value is a record of its type and a text that tells the values
\* of that type apart; a dict is a function from its keys to Python values.
Py(k, v) == [k |-> k, v |-> v]

PyNone == Py("NoneType", "None")

\* x is a dict
IsDict(x) == "k" \notin DOMAIN x

\* bool(x) as 'if x' takes it
PyTruthy(x) ==
    IF IsDict(x) THEN DOMAIN x /= {}
    ELSE ~(\/ x.k = "NoneType"
           \/ x.k = "str" /\ x.v = ""
           \/ x.k = "bool" /\ x.v = "False")

\* d.get(key, default)
Get(d, key, default) == IF key \in DOMAIN d THEN d[key] ELSE default

\* models.IPCMessageType: the value of each member
IPCMessageType ==
    [START |-> "start", STOP |-> "stop", PAUSE |-> "pause",
     RESUME |-> "resume", STATUS |-> "status", ERROR |-> "error",
     LIST_AUDIO_DEVICES |-> "list_audio_devices",
     START_RECORDING |-> "start_recording",
     STOP_RECORDING |-> "stop_recording"]

\* models.DaemonState: the value of each member
DaemonStateValue ==
    [STARTING |-> STARTING, RUNNING |-> RUNNING, PAUSED |-> PAUSED,
     STOPPING |-> STOPPING, STOPPED |-> STOPPED]

\* Enum(value): the member of that value, "ValueError" when there is none
EnumOf(enum, value) ==
    IF \E member \in DOMAIN enum : enum[member] = value
    THEN CHOOSE member \in DOMAIN enum : enum[member] = value
    ELSE "ValueError"

\* models.IPCMessage and its subclasses: the class, the type member, data
IPCMessage(cls, type, data) == [cls |-> cls, type |-> type, data |-> data]

StartRequest(config) ==
    IPCMessage("StartRequest", "START",
               IF config /= PyNone THEN [key \in {"config"} |-> config]
               ELSE PyNone)

StatusResponse(st, uptime, model_loaded, current_model, error_message) ==
    IPCMessage("StatusResponse", "STATUS",
               [key \in {"state", "uptime", "model_loaded"}
                        \cup (IF current_model /= PyNone
                              THEN {"current_model"} ELSE {})
                        \cup (IF error_message /= PyNone
                              THEN {"error_message"} ELSE {}) |->
                   CASE key = "state" -> st
                     [] key = "uptime" -> uptime
                     [] key = "model_loaded" -> model_loaded
                     [] key = "current_model" -> current_model
                     [] key = "error_message" -> error_message])

ErrorResponse(message, code) ==
    IPCMessage("ErrorResponse", "ERROR",
               [key \in {"message", "code"} |->
                   IF key = "message" THEN message ELSE code])

ListAudioDevicesResponse(devices) ==
    IPCMessage("ListAudioDevicesResponse", "LIST_AUDIO_DEVICES",
               [key \in {"devices"} |-> devices])

StartRecordingRequest(device_id, sample_rate, channels, backend) ==
    IPCMessage("StartRecordingRequest", "START_RECORDING",
               [key \in {"device_id", "sample_rate", "channels"}
                        \cup (IF PyTruthy(backend) THEN {"backend"} ELSE {}) |->
                   CASE key = "device_id" -> device_id
                     [] key = "sample_rate" -> sample_rate
                     [] key = "channels" -> channels
                     [] key = "backend" -> backend])

\* the messages examined: every request and response class, built by its
\* constructor
Messages ==
    {StartRequest(config) :
         config \in {PyNone, Py("dict", "{'model': 'base'}")}}
    \cup {IPCMessage(cls[1], cls[2], PyNone) :
              cls \in {<<"StopRequest", "STOP">>, <<"PauseRequest", "PAUSE">>,
                       <<"ResumeRequest", "RESUME">>,
                       <<"StatusRequest", "STATUS">>,
                       <<"ListAudioDevicesRequest", "LIST_AUDIO_DEVICES">>,
                       <<"StopRecordingRequest", "STOP_RECORDING">>}}
    \cup {StatusResponse(Py("DaemonState", st), Py("float", up),
                         Py("bool", ml), cm, em) :
              st \in DOMAIN DaemonStateValue, up \in {"0.0", "1.5"},
              ml \in {"True", "False"},
              cm \in {PyNone, Py("str", ""), Py("str", "base")},
              em \in {PyNone, Py("str", "boom")}}
    \cup {ErrorResponse(Py("str", msg), Py("int", code)) :
              msg \in {"", "boom"}, code \in {"1", "404", "409", "501"}}
    \cup {ListAudioDevicesResponse(Py("list", devices)) :
              devices \in {"[]", "[{'id': 'mic0'}]"}}
    \cup {StartRecordingRequest(Py("str", dev), Py("int", "16000"),
                                Py("int", ch), be) :
              dev \in {"default", "mic0"}, ch \in {"1", "2"},
              be \in {PyNone, Py("str", ""), Py("str", "sox")}}

\* A JSON text is taken by its structure: a value is a record of its JSON
\* kind and its text, an object a function from its keys to values.
JNull == Py("null", "null")

\* ipc.py 24-30: the 'default' of json.dumps: the value of an Enum member
json_encoder(obj) ==
    IF obj.k = "DaemonState" THEN Py("str", DaemonStateValue[obj.v])
    ELSE Py("TypeError", obj.k)

\* json.dumps of one value
json_dumps_value(x) ==
    LET y == IF x.k \in {"str", "int", "float", "bool", "NoneType", "dict",
                         "list"}
             THEN x ELSE json_encoder(x)
    IN CASE y.k = "str" -> Py("string", y.v)
         [] y.k \in {"int", "float"} -> Py("number", y.v)
         [] y.k = "bool" -> Py("boolean", y.v)
         [] y.k = "NoneType" -> JNull
         [] y.k = "dict" -> Py("object", y.v)
         [] y.k = "list" -> Py("array", y.v)
         [] OTHER -> y

\* json.dumps of message.data
json_dumps(data) ==
    IF IsDict(data) THEN [key \in DOMAIN data |-> json_dumps_value(data[key])]
    ELSE json_dumps_value(data)

\* ipc.py 21-36
serialize_message(m) ==
    [type |-> Py("string", IPCMessageType[m.type]),
     data |-> json_dumps(m.data)]

\* the texts of JSON numbers that have no fraction
IntTexts == {"1", "2", "404", "409", "501", "16000"}

\* json.loads of one value
json_loads_value(j) ==
    CASE j.k = "string" -> Py("str", j.v)
      [] j.k = "number" ->
             IF j.v \in IntTexts THEN Py("int", j.v) ELSE Py("float", j.v)
      [] j.k = "boolean" -> Py("bool", j.v)
      [] j.k = "null" -> PyNone
      [] j.k = "object" -> Py("dict", j.v)
      [] j.k = "array" -> Py("list", j.v)

\* json.loads of the "data" of a message
json_loads(j) ==
    IF IsDict(j) THEN [key \in DOMAIN j |-> json_loads_value(j[key])]
    ELSE json_loads_value(j)

deserialize_wire_generic(text) ==
    IPCMessage("IPCMessage", EnumOf(IPCMessageType, json_loads_value(text.type).v),
               json_loads(text.data))

\* ipc.py 39-86 on a text serialize_message wrote: json.loads, the type,
\* then the StatusResponse or ErrorResponse rebuilt from the data, or the
\* generic IPCMessage
deserialize_wire(text) ==
    LET msg_type == EnumOf(IPCMessageType, json_loads_value(text.type).v)
        message_data == json_loads(text.data)
        generic == IPCMessage("IPCMessage", msg_type, message_data)
    IN IF msg_type = "ValueError" THEN [cls |-> "ValueError"]
       ELSE IF /\ msg_type = "STATUS" /\ PyTruthy(message_data)
               /\ IsDict(message_data) /\ "state" \in DOMAIN message_data
       THEN LET st == EnumOf(DaemonStateValue, message_data["state"].v)
            IN IF \/ message_data["state"].k /= "str" \/ st = "ValueError"
                  \/ {"uptime", "model_loaded"} \ DOMAIN message_data /= {}
               THEN generic
               ELSE StatusResponse(Py("DaemonState", st),
                                   message_data["uptime"],
                                   message_data["model_loaded"],
                                   Get(message_data, "current_model", PyNone),
                                   Get(message_data, "error_message", PyNone))
       ELSE IF /\ msg_type = "ERROR" /\ PyTruthy(message_data)
               /\ IsDict(message_data)
       THEN IF "message" \notin DOMAIN message_data THEN generic
            ELSE ErrorResponse(message_data["message"],
                               Get(message_data, "code", Py("int", "1")))
       ELSE generic

\* everything but the message examined
CodecFrame ==
    UNCHANGED <<dvars, osvars, cfg_socket_path, now, pc, frame, ev,
                run_elapsed, recvars, run, conn, waits_conns, probe,
                refused, scope, client>>

\* serialize_message(m)
Serialize ==
    /\ codec.phase = "made"
    /\ codec' = [phase |-> "serialized", m |-> codec.m,
                 wire |-> serialize_message(codec.m)]
    /\ CodecFrame

\* deserialize_message of what was serialized
Deserialize ==
    /\ codec.phase = "serialized"
    /\ codec' = [phase |-> "deserialized", m |-> codec.m,
                 wire |-> codec.wire, out |-> deserialize_wire(codec.wire)]
    /\ CodecFrame

CodecInit ==
    /\ DaemonInit
    /\ XInit
    /\ waits_conns = FALSE
    /\ probe = NoProbe
    /\ codec \in {[phase |-> "made", m |-> m] : m \in Messages}

CodecNext == Serialize \/ Deserialize

SpecCodec == CodecInit /\ [][CodecNext]_vars

\* ======================================================== AudioRecorder
\* the names of the audio backends: ParecBackend, PwCatBackend, SoxBackend
BackendNames == {"parec", "pw-cat", "sox"}

\* AudioRecorder.backends: the backends of a registry, each once, in order
Registries ==
    {reg \in UNION {[1..n -> BackendNames] : n \in 0..Cardinality(BackendNames)} :
        \A i, j \in DOMAIN reg : reg[i] = reg[j] => i = j}

\* the backend_name arguments of start_recording: None, the empty string,
\* the name of a backend, a name no backend has
BackendArgs ==
    {Py("NoneType", "None"), Py("str", ""), Py("str", "jack")}
    \cup {Py("str", b) : b \in BackendNames}

\* audio.py 509-515: every backend of the registry is probed once, in
\* order; the available ones are kept in order
RECURSIVE get_available_backends(_, _)
get_available_backends(backends, avail) ==
    IF backends = <<>> THEN [available |-> <<>>, probed |-> <<>>]
    ELSE LET backend == Head(backends)
             rest == get_available_backends(Tail(backends), avail)
         IN [available |-> IF backend \in avail
                           THEN <<backend>> \o rest.available
                           ELSE rest.available,
             probed |-> <<backend>> \o rest.probed]

_get_first_available_backend_last(backends, avail) ==
    LET found == get_available_backends(backends, avail)
    IN IF found.available = <<>>
       THEN [out |-> "RuntimeError", msg |-> "No audio backends available",
             by |-> "none", probed |-> found.probed]
       ELSE [out |-> "backend", msg |-> "none",
             by |-> found.available[Len(found.available)],
             probed |-> found.probed]

\* audio.py 517-522
_get_first_available_backend(backends, avail) ==
    LET found == get_available_backends(backends, avail)
    IN IF found.available = <<>>
       THEN [out |-> "RuntimeError", msg |-> "No audio backends available",
             by |-> "none", probed |-> found.probed]
       ELSE [out |-> "backend", msg |-> "none", by |-> found.available[1],
             probed |-> found.probed]

\* the method 'what' called on the backend a lookup found, or the error of
\* the lookup
CallOn(found, what) ==
    IF found.out = "backend" THEN [found EXCEPT !.out = what] ELSE found

\* audio.py 524-527
list_devices(backends, avail) ==
    CallOn(_get_first_available_backend(backends, avail), "list_devices")

\* audio.py 529-532
get_default_device(backends, avail) ==
    CallOn(_get_first_available_backend(backends, avail),
           "get_default_device")

\* audio.py 544-550: the loop over the registry for a named backend:
\* is_available is awaited only on a backend of that name
RECURSIVE find_named(_, _, _)
find_named(backends, avail, name) ==
    IF backends = <<>>
    THEN [out |-> "RuntimeError", msg |-> "Backend not available",
          by |-> "none", probed |-> <<>>]
    ELSE LET backend == Head(backends)
         IN IF backend /= name
            THEN find_named(Tail(backends), avail, name)
            ELSE IF backend \in avail
            THEN [out |-> "backend", msg |-> "none", by |-> backend,
                  probed |-> <<backend>>]
            ELSE LET rest == find_named(Tail(backends), avail, name)
                 IN [rest EXCEPT !.probed = <<backend>> \o rest.probed]

start_recording_fallback(backends, avail, backend_name) ==
    IF PyTruthy(backend_name)
       /\ find_named(backends, avail, backend_name.v).out = "backend"
    THEN CallOn(find_named(backends, avail, backend_name.v),
                "start_recording")
    ELSE CallOn(_get_first_available_backend(backends, avail),
                "start_recording")

\* audio.py 534-555
start_recording(backends, avail, backend_name) ==
    IF PyTruthy(backend_name)
    THEN CallOn(find_named(backends, avail, backend_name.v),
                "start_recording")
    ELSE CallOn(_get_first_available_backend(backends, avail),
                "start_recording")

\* everything but the AudioRecorder call examined
ProbeFrame ==
    UNCHANGED <<dvars, osvars, cfg_socket_path, now, pc, frame, ev,
                run_elapsed, recvars, run, conn, waits_conns, codec,
                refused, scope, client>>

\* the sample_rate and channels arguments of start_recording
SampleRates == {-1, 0, 16000}

ChannelCounts == {0, 1}

\* what asyncio.create_subprocess_exec of the recorder does: the process
\* runs, the call raises OSError, or the process has already failed
StartOutcomes == {"spawned", "spawn_fails", "exits_at_once"}

backend_start_recording_unchecked(sample_rate, channels, outcome) ==
    CASE outcome = "spawn_fails" -> [ret |-> "RuntimeError", procs |-> 0]
      [] outcome = "exits_at_once" -> [ret |-> "RuntimeError", procs |-> 1]
      [] OTHER -> [ret |-> "AudioStream", procs |-> 1]

\* audio.py 225-262, 322-369, 453-491: start_recording of a backend: what
\* it returns or raises, and the recorder processes it spawned
backend_start_recording(sample_rate, channels, outcome) ==
    IF sample_rate <= 0 THEN [ret |-> "ValueError", procs |-> 0]
    ELSE IF channels <= 0 THEN [ret |-> "ValueError", procs |-> 0]
    ELSE CASE outcome = "spawn_fails" -> [ret |-> "RuntimeError", procs |-> 0]
           [] outcome = "exits_at_once" ->
                  [ret |-> "RuntimeError", procs |-> 1]
           [] OTHER -> [ret |-> "AudioStream", procs |-> 1]

\* the call made: its method, its backend_name argument, its result; for
\* start_recording also the other arguments, what the backend returned or
\* raised (ret) and the recorder processes spawned (procs)
Called(op, backend_name, result) ==
    [phase |-> "done", backends |-> probe.backends, avail |-> probe.avail,
     op |-> op, backend_name |-> backend_name, out |-> result.out,
     msg |-> result.msg, by |-> result.by, probed |-> result.probed,
     sample_rate |-> 0, channels |-> 0, ret |-> "none", procs |-> 0]

ListDevices ==
    /\ probe.phase = "made"
    /\ probe' = Called("list_devices", PyNone,
                       list_devices(probe.backends, probe.avail))
    /\ ProbeFrame

GetDefaultDevice ==
    /\ probe.phase = "made"
    /\ probe' = Called("get_default_device", PyNone,
                       get_default_device(probe.backends, probe.avail))
    /\ ProbeFrame

RecorderStartRecording(backend_name, sample_rate, channels, outcome) ==
    /\ probe.phase = "made"
    /\ LET found == start_recording(probe.backends, probe.avail,
                                    backend_name)
           started == IF found.out = "start_recording"
                      THEN backend_start_recording(sample_rate, channels,
                                                   outcome)
                      ELSE [ret |-> found.out, procs |-> 0]
       IN probe' = [Called("start_recording", backend_name, found)
                       EXCEPT !.sample_rate = sample_rate,
                              !.channels = channels,
                              !.ret = started.ret,
                              !.procs = started.procs]
    /\ ProbeFrame

\* an AudioRecorder over any registry, with any of the backends available
ProbeInit ==
    /\ DaemonInit
    /\ XInit
    /\ waits_conns = FALSE
    /\ codec = NoCodec
    /\ probe \in {[phase |-> "made", backends |-> reg, avail |-> avail] :
                     reg \in Registries, avail \in SUBSET BackendNames}

ProbeNext ==
    \/ ListDevices
    \/ GetDefaultDevice
    \/ \E backend_name \in BackendArgs, sample_rate \in SampleRates,
          channels \in ChannelCounts, outcome \in StartOutcomes :
           RecorderStartRecording(backend_name, sample_rate, channels,
                                  outcome)

SpecProbe == ProbeInit /\ [][ProbeNext]_vars

\* ========================================================= AudioStream
\* An AudioStream used as 'async with stream: async for chunk in stream:
\* ...'.  scope.phase is "iter" inside the block, "closing" while close()
\* waits for the recorder's exit, "left" once the block has been left.
\*   proc        the recorder process: "running", "terminating" (sent
\*               SIGTERM), "exited"
\*   path        how the block was left: "eof", "break", "body_raises",
\*               "read_raises"
\*   chunks      chunks the loop has read
\*   closes      calls of close() that have returned or raised
\*   terminates  SIGTERMs sent to the process
\*   waited      a process.wait() of close() has returned
\*   raised      what a close() raised, "none" when none did
ExitPaths == {"eof", "break", "body_raises", "read_raises"}

Swallowed_not(exc) == exc

\* audio.py 95-97: 'except Exception: pass' in close(): what leaves close()
\* when terminate() or wait() raised exc
Swallowed(exc) == "none"

\* everything but the stream in use
StreamFrame ==
    UNCHANGED <<dvars, osvars, cfg_socket_path, now, pc, frame, ev,
                run_elapsed, recvars, run, conn, waits_conns, codec, probe,
                refused, client>>

\* audio.py 99-101: __aenter__ on a stream whose recorder runs or has
\* exited
Enter(proc) ==
    /\ scope.phase = "none"
    /\ scope' = [phase |-> "iter", proc |-> proc, path |-> "none",
                 chunks |-> 0, closes |-> 0, terminates |-> 0,
                 waited |-> FALSE, raised |-> "none"]
    /\ StreamFrame

\* audio.py 111-116: __anext__ returns a chunk and the loop body completes
NextChunk ==
    /\ scope.phase = "iter"
    /\ scope.proc = "running"
    /\ scope.chunks < MaxChunks
    /\ scope' = [scope EXCEPT !.chunks = scope.chunks + 1]
    /\ StreamFrame

\* audio.py 89-97 called on the stream: terminate() raises
\* ProcessLookupError on a process that has exited, else the process is
\* sent SIGTERM and close() waits for its exit
close(sc) ==
    IF sc.proc = "exited"
    THEN [sc EXCEPT !.phase = "left", !.closes = sc.closes + 1,
                    !.raised = IF sc.raised /= "none" THEN sc.raised
                               ELSE Swallowed("ProcessLookupError")]
    ELSE [sc EXCEPT !.phase = "closing", !.proc = "terminating",
                    !.terminates = sc.terminates + 1]

\* audio.py 103-105 and 111-116: the block is left, by the end of the
\* data, a break, an exception of the body or of read(), and __aexit__
\* calls close()
Leave(path) ==
    /\ scope.phase = "iter"
    /\ path = "eof" => scope.chunks = MaxChunks \/ scope.proc = "exited"
    /\ scope' = close([scope EXCEPT !.path = path])
    /\ StreamFrame

\* the recorder process exits, of itself or after SIGTERM
RecorderExits ==
    /\ scope.phase \in {"iter", "closing"}
    /\ scope.proc \in {"running", "terminating"}
    /\ scope' = [scope EXCEPT !.proc = "exited"]
    /\ StreamFrame

\* audio.py 94: process.wait() returns and close() with it
CloseReturns ==
    /\ scope.phase = "closing"
    /\ scope.proc = "exited"
    /\ scope' = [scope EXCEPT !.phase = "left", !.waited = TRUE,
                              !.closes = scope.closes + 1]
    /\ StreamFrame

\* close() called again on the stream after the block
CloseAgain ==
    /\ scope.phase = "left"
    /\ scope.closes < MaxCloses
    /\ scope' = close(scope)
    /\ StreamFrame

StreamNext ==
    \/ \E proc \in {"running", "exited"} : Enter(proc)
    \/ NextChunk
    \/ \E path \in ExitPaths : Leave(path)
    \/ RecorderExits
    \/ CloseReturns
    \/ CloseAgain

SpecStream == Init /\ [][StreamNext]_vars

\* =========================================================== IPCClient
\* One IPCClient and the server it talks to.
\*   socket    the socket path: "absent", "refusing" (a file nobody
\*             listens on), "listening"
\*   held      _reader and _writer are set
\*   peer      the server's end of the held connection: "none", "open"
\*             (accepted, no request read yet), "closed"
\*   sends     send_message calls made; connects: connection attempts;
\*   failed    connection attempts that raised
\*   last      what the last send_message returned ("status", "error": a
\*             response) or raised
SocketStates == {"absent", "refusing", "listening"}

\* the responses a handler returns: a Status or an Error response
Replies == {"status", "error"}

\* what send_message meets on a connection the server has closed: EOF in
\* readexactly, or an error of the write
DeadConnection ==
    {"IncompleteReadError", "BrokenPipeError", "ConnectionResetError"}

_connect_keeps(socket) ==
    IF socket = "listening"
    THEN [held |-> TRUE, peer |-> "open", raised |-> "none"]
    ELSE [held |-> TRUE, peer |-> "closed", raised |-> "ConnectionError"]

\* ipc.py 234-241: IPCClient._connect
_connect(socket) ==
    IF socket = "listening"
    THEN [held |-> TRUE, peer |-> "open", raised |-> "none"]
    ELSE [held |-> FALSE, peer |-> "none", raised |-> "ConnectionError"]

AfterExchange_open == "open"

\* ipc.py 207-213: the server's end of a connection once _handle_client
\* has answered its one request
AfterExchange == "closed"

\* everything but the client
ClientFrame ==
    UNCHANGED <<dvars, osvars, cfg_socket_path, now, pc, frame, ev,
                run_elapsed, recvars, run, conn, waits_conns, codec, probe,
                refused, scope>>

\* ipc.py 228-232: IPCClient.__init__
NewClient(socket) ==
    /\ client.phase = "none"
    /\ client' = [phase |-> "made", socket |-> socket, held |-> FALSE,
                  peer |-> "none", sends |-> 0, connects |-> 0,
                  failed |-> 0, last |-> "none"]
    /\ ClientFrame

\* the daemon behind the socket starts, stops or dies
SocketChanges(socket) ==
    /\ client.phase = "made"
    /\ socket /= client.socket
    /\ client' = [client EXCEPT !.socket = socket]
    /\ ClientFrame

\* ipc.py 281-284: __aenter__ connects
ClientEnter ==
    /\ client.phase = "made"
    /\ ~client.held
    /\ client.connects < MaxSends
    /\ LET c == _connect(client.socket)
       IN client' = [client EXCEPT !.held = c.held, !.peer = c.peer,
                                   !.connects = client.connects + 1,
                                   !.failed = client.failed
                                              + (IF c.raised = "none"
                                                 THEN 0 ELSE 1)]
    /\ ClientFrame

\* ipc.py 243-249: _disconnect
Disconnect ==
    /\ client.phase = "made"
    /\ client.held
    /\ client' = [client EXCEPT !.held = FALSE, !.peer = "none"]
    /\ ClientFrame

\* ipc.py 251-279 against ipc.py 177-213: send_message: connect when no
\* connection is held, write the request, read the response.  The server
\* answers the first request of a connection with reply and closes; on a
\* connection it has closed the client meets dead.
SendMessage(reply, dead) ==
    /\ client.phase = "made"
    /\ client.sends < MaxSends
    /\ client.connects < MaxSends
    /\ LET c == IF client.held
                THEN [held |-> TRUE, peer |-> client.peer, raised |-> "none"]
                ELSE _connect(client.socket)
           tried == IF client.held THEN 0 ELSE 1
       IN client' =
              [client EXCEPT
                  !.sends = client.sends + 1,
                  !.connects = client.connects + tried,
                  !.failed = client.failed
                             + (IF c.raised = "none" THEN 0 ELSE 1),
                  !.held = c.held,
                  !.peer = IF c.raised /= "none" THEN c.peer
                           ELSE IF c.peer = "open" THEN AfterExchange
                           ELSE c.peer,
                  !.last = IF c.raised /= "none" THEN c.raised
                           ELSE IF c.peer = "open" THEN reply
                           ELSE dead]
    /\ ClientFrame

ClientNext ==
    \/ \E socket \in SocketStates : NewClient(socket)
    \/ \E socket \in SocketStates : SocketChanges(socket)
    \/ ClientEnter
    \/ Disconnect
    \/ \E reply \in Replies, dead \in DeadConnection :
           SendMessage(reply, dead)

SpecClient == Init /\ [][ClientNext]_vars

\* ================================================================ claims

\* the PID file text f is the decimal form of the id of a live process
RecordsLive(f) == \E p \in LivePids : f = Str(p)

\* the PID file text f is the decimal form of the id of no process
RecordsStale(f) == \E p \in DeadPids : f = Str(p)

\* the PID file exists and its text is not the decimal form of a number
Corrupted(f) ==
    f /= NoFile /\ \A p \in LivePids \cup DeadPids : f /= Str(p)

Succeeded == ev.out \in {"ok", "suspended"}

\* C1: start() succeeds only from STOPPED, pause() only from RUNNING and
\* resume() only from PAUSED; any other invocation raises a DaemonError
\* whose message names the state the daemon is in, and changes no state.
C1_TransitionGuards ==
    ev.kind = "call" =>
        /\ (ev.op = "start" /\ Succeeded) => ev.from = STOPPED
        /\ (ev.op = "pause" /\ Succeeded) => ev.from = RUNNING
        /\ (ev.op = "resume" /\ Succeeded) => ev.from = PAUSED
        /\ (\/ ev.op = "start" /\ ev.from /= STOPPED
            \/ ev.op = "pause" /\ ev.from /= RUNNING
            \/ ev.op = "resume" /\ ev.from /= PAUSED)
           => /\ ev.out = "DaemonError"
              /\ ev.named = ev.from
              /\ state = ev.from
              /\ ev.edges = <<>>

\* C1 witness: resume() was refused in RUNNING and the error names RUNNING.
C1_Witness ==
    /\ ev.kind = "call" /\ ev.op = "resume" /\ ev.from = RUNNING
    /\ ev.out = "DaemonError" /\ ev.named = RUNNING

\* the edges of the lifecycle state machine
AllowedEdges ==
    {<<STOPPED, STARTING>>, <<STARTING, RUNNING>>, <<PAUSED, RUNNING>>,
     <<RUNNING, PAUSED>>, <<STOPPING, STOPPED>>}
    \cup {<<s, STOPPING>> : s \in DaemonState \ {STOPPED}}

\* C2: every change of Daemon.state, in every interleaving of the calls,
\* follows an edge of the state machine.
C2_EdgesOnly ==
    \A i \in 1..Len(ev.edges) :
        ev.edges[i][1] /= ev.edges[i][2] => ev.edges[i] \in AllowedEdges

\* the program order of the effects of a successful start()
StartOrder ==
    <<"state:=STARTING", "start_time", "pid_file", "ipc_listening",
      "state:=RUNNING">>

C4_StopCleansUp ==
    (ev.kind = "call" /\ ev.op = "stop" /\ ev.from /= STOPPED) =>
        /\ ev.out = "ok"
        /\ state = STOPPED
        /\ ~ListenerOpen
        /\ socket_file = None
        /\ pid_file = NoFile
        /\ shutdown_event

\* C5: stop() on a STOPPED daemon raises nothing and changes nothing, and
\* every stop() returns in STOPPED, so a second stop() in a row is such a
\* call and leaves what the first one left.
C5_StopIdempotent ==
    [][(ev'.kind = "call" /\ ev'.op = "stop") =>
          /\ ev'.out = "ok"
          /\ state' = STOPPED
          /\ (state = STOPPED =>
                 /\ ev'.edges = <<>>
                 /\ UNCHANGED <<dvars, osvars, pc, frame>>)]_vars

\* C5 witness: stop() was called on a STOPPED daemon that has run before.
C5_Witness ==
    /\ ev.kind = "call" /\ ev.op = "stop" /\ ev.from = STOPPED
    /\ ev.out = "ok" /\ state = STOPPED /\ start_time /= None

\* C6: start() on a STOPPED daemon whose PID file records a live process
\* raises SingleInstanceError, stays STOPPED, leaves the PID file as it was
\* and starts no listener.
C6_LivePidRefused ==
    (ev.kind = "call" /\ ev.op = "start" /\ ev.from = STOPPED
       /\ RecordsLive(ev.pidf)) =>
        /\ ev.out = "SingleInstanceError"
        /\ state = STOPPED
        /\ pid_file = ev.pidf
        /\ \A t \in Tasks : srv[t] /= "pending"

\* C7: start() on a STOPPED daemon whose PID file records a process that is
\* not running is not refused: unless the PID file cannot be written or
\* the socket cannot be bound, it overwrites the PID file with its own
\* process id and returns in RUNNING.
C7_StalePidOverwritten ==
    /\ (ev.kind = "call" /\ ev.op = "start" /\ ev.from = STOPPED
          /\ RecordsStale(ev.pidf)) =>
           /\ ev.out \notin {"SingleInstanceError", "DaemonError",
                              "ValueError"}
           /\ ev.fault = "none" =>
                  /\ ev.out = "suspended"
                  /\ ParseInt(pid_file) = Some(GetPid)
    /\ (ev.kind = "cont" /\ ev.op = "start" /\ RecordsStale(ev.pidf)) =>
           /\ ev.out = "ok"
           /\ state = RUNNING

\* C7 witness: a start() that found a stale PID file has returned.
C7_Witness ==
    /\ ev.kind = "cont" /\ ev.op = "start" /\ RecordsStale(ev.pidf)
    /\ ev.out = "ok" /\ state = RUNNING

\* C8: with a PID file that is not a number, or one that cannot be written,
\* start() raises to its caller and never moves to RUNNING: a corrupted
\* file raises ValueError with the state unchanged, an unwritable one
\* raises PermissionError once the PID check has passed.
C8_PidFaultsSurface ==
    (ev.kind = "call" /\ ev.op = "start"
       /\ (Corrupted(ev.pidf) \/ ev.fault = "pid_unwritable")) =>
        /\ ev.out \in {"DaemonError", "ValueError", "SingleInstanceError",
                        "PermissionError"}
        /\ \A i \in 1..Len(ev.edges) : ev.edges[i][2] /= RUNNING
        /\ ev.from = STOPPED =>
               /\ state /= RUNNING
               /\ Corrupted(ev.pidf) =>
                      ev.out = "ValueError" /\ state = STOPPED
               /\ (ev.pidf = NoFile \/ RecordsStale(ev.pidf)) =>
                      ev.out = "PermissionError"

\* C8 witness: start() met an unwritable PID file and raised.
C8_Witness ==
    /\ ev.kind = "call" /\ ev.op = "start" /\ ev.from = STOPPED
    /\ ev.fault = "pid_unwritable" /\ ev.out = "PermissionError"

\* C9: while the daemon stays RUNNING get_uptime() does not decrease, and
\* while it stays PAUSED get_uptime() does not change.
C9_UptimeMonotone ==
    [][/\ (state = RUNNING /\ state' = RUNNING) => get_uptime' >= get_uptime
       /\ (state = PAUSED /\ state' = PAUSED) => get_uptime' = get_uptime]_vars

\* C9 witness: the daemon is PAUSED, time has passed since the pause, and
\* the uptime is the positive value it had when the pause began.
C9_Witness ==
    /\ state = PAUSED /\ Truthy(pause_time) /\ now > pause_time[1]
    /\ get_uptime > 0
    /\ get_uptime = pause_time[1] - start_time[1] - total_paused_time

\* C10: while RUNNING or PAUSED, get_uptime() is the time since the latest
\* start that the daemon has not spent PAUSED.
C10_UptimeIsRunTime ==
    state \in {RUNNING, PAUSED} => get_uptime = run_elapsed

\* C11: handle_signal applies the signal policy in every state: SIGTERM and
\* SIGINT run stop() and leave the daemon STOPPED; SIGUSR1 moves RUNNING to
\* PAUSED and PAUSED to RUNNING, and in any other state it raises nothing
\* and changes nothing.
C11_SignalPolicy ==
    [][ev'.sig /= "none" =>
          /\ ev'.kind = "call" /\ ev'.out = "ok" /\ ev'.from = state
          /\ ev'.sig \in {SIGTERM, SIGINT} =>
                 ev'.op = "stop" /\ state' = STOPPED
          /\ (ev'.sig = SIGUSR1 /\ state = RUNNING) =>
                 ev'.op = "pause" /\ state' = PAUSED
          /\ (ev'.sig = SIGUSR1 /\ state = PAUSED) =>
                 ev'.op = "resume" /\ state' = RUNNING
          /\ (ev'.sig = SIGUSR1 /\ state \notin {RUNNING, PAUSED}) =>
                 /\ ev'.op = "none" /\ ev'.edges = <<>>
                 /\ UNCHANGED <<dvars, osvars, pc, frame>>]_vars

\* C11 witness: SIGUSR1 arrived while start() was suspended in STARTING and
\* nothing was raised or changed.
C11_Witness ==
    /\ ev.sig = SIGUSR1 /\ ev.from = STARTING /\ ev.op = "none"
    /\ ev.out = "ok" /\ state = STARTING

\* C13: a StartRecording request handled while a stream is held returns an
\* Error with code 409 saying a recording is already in progress and leaves
\* the stream in place; one handled while no stream is held is not refused;
\* a StopRecording request that has completed leaves no stream held, so the
\* StartRecording after it is accepted, and the one that succeeds holds the
\* stream it started.
C13_RecordingExclusive ==
    /\ (resp.op = "start_recording" /\ resp.kind = "call"
          /\ resp.found /= None) =>
           /\ resp.out = "error" /\ resp.code = 409
           /\ resp.msg = "Recording already in progress"
           /\ current_stream = resp.found
    /\ (resp.op = "start_recording" /\ resp.kind = "call"
          /\ resp.found = None) => resp.out = "suspended"
    /\ (resp.op = "stop_recording" /\ resp.out = "status") =>
           current_stream = None
    /\ (resp.op = "start_recording" /\ resp.out = "status") =>
           /\ resp.found = None
           /\ current_stream /= None /\ current_stream[1] \in alive

\* C13 witness: a StartRecording request has succeeded after the first
\* recording was stopped and its recorder exited.
C13_Witness ==
    /\ resp.op = "start_recording" /\ resp.out = "status"
    /\ current_stream = Some(2) /\ alive = {2}

\* C14: under every interleaving of StartRecording and StopRecording
\* requests at most one recorder process is alive, and a live recorder
\* process is the one of the daemon's current stream.
C14_OneRecorder ==
    /\ Cardinality(alive) <= 1
    /\ \A p \in alive : current_stream = Some(p)

\* C15: a StopRecording request that found a stream returns a Status
\* response only once the recorder has exited, with no stream held and no
\* recorder process alive; one that found no stream returns an Error with
\* code 404 and changes nothing.
C15_StopRecordingClean ==
    /\ (resp.op = "stop_recording" /\ resp.found /= None
          /\ resp.out /= "suspended") =>
           /\ resp.out = "status"
           /\ current_stream = None
           /\ resp.found[1] \notin alive
           /\ alive = {}
    /\ (resp.op = "stop_recording" /\ resp.found = None) =>
           /\ resp.out = "error" /\ resp.code = 404
           /\ current_stream = None

\* C16: when stop() called in a state other than STOPPED returns, the
\* daemon holds no current stream and the recorder of the stream it found
\* has exited; whether or not closing the stream met a failure, the state is
\* STOPPED and the PID file and the socket file are gone.
C16_StopClosesStream ==
    (resp.op = "stop" /\ resp.out = "ok") =>
        /\ current_stream = None
        /\ resp.found /= None => resp.found[1] \notin alive
        /\ state = STOPPED
        /\ pid_file = NoFile
        /\ socket_file = None

\* C16 witness: stop() found a stream, waited for its recorder to exit and
\* returned.
C16_Witness ==
    /\ resp.op = "stop" /\ resp.kind = "cont" /\ resp.out = "ok"
    /\ resp.found /= None /\ spawned > 0

\* C12: once stop() has been invoked on a daemon whose run() is in its
\* loop, whether it was RUNNING or PAUSED, run() eventually returns with
\* the state STOPPED.
C12_RunTerminates ==
    (/\ run \in {"check", "wait", "sleep"}
     /\ ev.kind = "call" /\ ev.op = "stop" /\ ev.from \in {RUNNING, PAUSED})
        ~> (run = "returned" /\ state = STOPPED)

\* a connection the server has closed
Closed(t) == conn[t].phase = "closed"

\* C17: on every connection on which a complete request frame arrived the
\* server has written exactly one response frame when it closes it, and on
\* no connection does it read a second request or write a second frame.
C17_OneResponse ==
    \A t \in Tasks :
        /\ conn[t].read <= 1 /\ conn[t].written <= 1
        /\ (Closed(t) /\ Complete(conn[t].frame)) =>
               conn[t].read = 1 /\ conn[t].written = 1

\* the requests whose decoding fails: a length prefix that does not match
\* what follows, a payload that is no UTF-8, no JSON, no JSON object, an
\* object without a type, a type that is no message type
Undecodable ==
    {"short_body", "bad_utf8", "bad_json", "not_object", "no_type",
     "bad_type"}

\* C18: a connection whose request could not be decoded is answered with
\* an Error response frame before it is closed.
C18_DecodeErrorsAnswered ==
    \A t \in Tasks :
        (Closed(t) /\ conn[t].frame \in Undecodable) =>
            conn[t].written = 1 /\ conn[t].rtype = "error"

\* C19: a request whose handler met an exception is answered with an Error
\* response, and answering a request other than Stop, faulting or not,
\* leaves the server accepting connections.
C19_HandlerFaultsAnswered ==
    [][\A t \in Tasks :
          (conn[t].phase \in {"read", "start"} /\ conn'[t].phase = "closed") =>
              /\ conn'[t].fault /= "none" =>
                     conn'[t].written = 1 /\ conn'[t].rtype = "error"
              /\ (conn'[t].frame /= "stop" /\ Accepting) => Accepting']_vars

\* C19 witness: a Pause request met DaemonError in its handler and was
\* answered with an Error; the server accepts connections and the next
\* one has been accepted.
C19_Witness ==
    \E t, u \in Tasks :
        /\ Closed(t) /\ conn[t].frame = "pause"
        /\ conn[t].fault = "DaemonError" /\ conn[t].rtype = "error"
        /\ Accepting /\ conn[u].phase = "read"

\* the eight request types
RequestTypes == MessageTypes \ {"error"}

\* the handler DaemonMessageHandler defines for each request type
OwnHandler(ty) ==
    CASE ty = "start" -> "_handle_start"
      [] ty = "stop" -> "_handle_stop"
      [] ty = "pause" -> "_handle_pause"
      [] ty = "resume" -> "_handle_resume"
      [] ty = "status" -> "_handle_status"
      [] ty = "list_audio_devices" -> "_handle_list_audio_devices"
      [] ty = "start_recording" -> "_handle_start_recording"
      [] ty = "stop_recording" -> "_handle_stop_recording"

\* C20: a request of each of the eight request types that went through
\* handle() was dispatched to the handler of its type.
C20_AllRequestsDispatched ==
    \A t \in Tasks :
        (conn[t].read = 1 /\ conn[t].frame \in RequestTypes) =>
            conn[t].handler = OwnHandler(conn[t].frame)

\* the step serves the request of the connection of task t to its end or
\* to the suspension of its handler
Served(t) ==
    /\ conn[t].phase = "read"
    /\ conn'[t].phase \in {"closed", "start", "blocked"}
    /\ conn'[t].read = 1

\* C21: a message whose type has no handler in the dispatch table is
\* answered with an Error response of code 501 whose message is of the
\* "not implemented" class.
C21_UnregisteredIs501 ==
    \A t \in Tasks :
        (/\ Closed(t) /\ conn[t].read = 1
         /\ deserialize_message(conn[t].frame).ok
         /\ HandlerOf(deserialize_message(conn[t].frame).val) = "none") =>
            /\ conn[t].rtype = "error"
            /\ conn[t].rcode = 501
            /\ conn[t].rmsg = "not implemented"

\* C22: a Stop request read from a connection while the daemon is RUNNING
\* or PAUSED leads to the daemon STOPPED, the socket file and the PID file
\* removed, and a Status response with state stopped written on that
\* connection.
C22_StopRequestStops ==
    \A t \in Tasks :
        (/\ conn[t].read = 1 /\ conn[t].handler = "_handle_stop"
         /\ ev.op = "stop" /\ ev.from \in {RUNNING, PAUSED})
            ~> (/\ state = STOPPED
                /\ socket_file = None
                /\ pid_file = NoFile
                /\ Closed(t)
                /\ conn[t].rtype = "status"
                /\ conn[t].rstate = STOPPED)

\* C23: a Pause request served in RUNNING is answered with a Status
\* response of state paused and a Resume request served in PAUSED with one
\* of state running, the daemon being in that state; either request served
\* in any other state is answered with an Error response whose message is
\* that of the DaemonError naming the current state, and the state is
\* unchanged.
C23_PauseResumeRequests ==
    [][\A t \in Tasks :
          (Served(t) /\ conn'[t].frame \in {"pause", "resume"}) =>
              IF conn'[t].frame = "pause" /\ state = RUNNING
              THEN /\ conn'[t].rtype = "status"
                   /\ conn'[t].rstate = PAUSED
                   /\ state' = PAUSED
              ELSE IF conn'[t].frame = "resume" /\ state = PAUSED
              THEN /\ conn'[t].rtype = "status"
                   /\ conn'[t].rstate = RUNNING
                   /\ state' = RUNNING
              ELSE /\ conn'[t].rtype = "error"
                   /\ conn'[t].rmsg = "DaemonError"
                   /\ ev'.out = "DaemonError"
                   /\ ev'.named = state
                   /\ state' = state]_vars

\* C23 witness: a Resume request served while the daemon was RUNNING was
\* answered with an Error naming the state running.
C23_Witness ==
    \E t \in Tasks :
        /\ Closed(t) /\ conn[t].frame = "resume"
        /\ conn[t].rtype = "error" /\ ev.named = RUNNING
        /\ state = RUNNING

\* C24: a Start request served in a state other than STOPPED is answered
\* with an Error response of code 409, and the state, the PID file, the
\* listeners and the socket file are unchanged.
C24_StartConflict ==
    [][\A t \in Tasks :
          (Served(t) /\ conn'[t].frame = "start" /\ state /= STOPPED) =>
              /\ conn'[t].phase = "closed"
              /\ conn'[t].rtype = "error"
              /\ conn'[t].rcode = 409
              /\ UNCHANGED <<state, pid_file, srv, orphaned, socket_file,
                             ipc_server>>]_vars

\* C24 witness: a Start request served while the daemon was PAUSED was
\* answered with code 409.
C24_Witness ==
    \E t \in Tasks :
        /\ Closed(t) /\ conn[t].frame = "start"
        /\ conn[t].rcode = 409 /\ state = PAUSED

\* C25: a Status request is answered with a Status response of the current
\* state and model_loaded false, and serving it changes nothing of the
\* daemon, of the files and listeners, or of the connections in flight.
C25_StatusIsPureRead ==
    [][\A t \in Tasks :
          (Served(t) /\ conn'[t].frame = "status") =>
              /\ conn'[t].phase = "closed"
              /\ conn'[t].rtype = "status"
              /\ conn'[t].rstate = state
              /\ conn'[t].rloaded = FALSE
              /\ get_status.state = state /\ ~get_status.model_loaded
              /\ UNCHANGED <<dvars, osvars, cfg_socket_path, now, pc, frame,
                             run_elapsed, recvars, run, waits_conns, pvars>>
              /\ \A u \in Tasks \ {t} :
                     conn[u].phase /= "closed" => conn'[u] = conn[u]]_vars

\* C25 witness: a Status request was answered with the state paused while
\* the connection of another client was open and unanswered.
C25_Witness ==
    \E t, u \in Tasks :
        /\ Closed(t) /\ conn[t].frame = "status"
        /\ conn[t].rtype = "status" /\ conn[t].rstate = PAUSED
        /\ state = PAUSED
        /\ conn[u].phase = "read"

\* C26: a pause() or resume() call leaves the current stream, the recorder
\* processes and the suspended recording handlers as they are, and a step
\* of the StartRecording or StopRecording handler leaves the daemon's
\* state, its start and pause times, its paused total and its pause gate
\* as they are.
C26_PauseRecordingIndependent ==
    [][/\ (ev'.kind = "call" /\ ev'.op \in {"pause", "resume"}) =>
              UNCHANGED <<current_stream, audio_recorder, alive, signalled,
                          spawned, loc>>
       /\ (resp'.kind /= "none"
           /\ resp'.op \in {"start_recording", "stop_recording"}) =>
              UNCHANGED <<state, start_time, pause_time, total_paused_time,
                          pause_event, shutdown_event>>]_vars

\* C26 witness: pause() succeeded while a recording stream with a live
\* recorder process is held, and the stream is still held.
C26_Witness ==
    /\ ev.op = "pause" /\ ev.out = "ok" /\ state = PAUSED
    /\ current_stream /= None /\ current_stream[1] \in alive

\* C27: the step of a start() call that passes the state check leaves the
\* state STARTING, so that a start() called while another one is suspended
\* and the state is still STARTING raises DaemonError and changes nothing;
\* the suspended call then resumes to RUNNING.
C27_OneStartProceeds ==
    [][\A t \in Tasks :
          /\ (pc[t] = "idle" /\ pc'[t] = "start_await") =>
                 state = STOPPED /\ state' = STARTING
          /\ (/\ pc[t] = "start_await" /\ state = STARTING
              /\ ev'.kind = "call" /\ ev'.op = "start") =>
                 /\ ev'.out = "DaemonError"
                 /\ UNCHANGED <<dvars, osvars, pc, frame>>
          /\ (pc[t] = "start_await" /\ pc'[t] = "idle") =>
                 state' = RUNNING]_vars

\* C27 witness: with the start() of one task suspended, the start() of
\* another raised DaemonError naming the state starting.
C27_Witness ==
    \E t \in Tasks :
        /\ pc[t] = "start_await" /\ state = STARTING
        /\ ev.op = "start" /\ ev.out = "DaemonError"
        /\ ev.named = STARTING

\* a and b are equal as message data: both None, or dicts of the same keys
\* with equal values
DataEq(a, b) ==
    IF IsDict(a) /= IsDict(b) THEN FALSE
    ELSE IF IsDict(a)
    THEN DOMAIN a = DOMAIN b /\ \A key \in DOMAIN a : a[key] = b[key]
    ELSE a = b

\* C28: what is deserialized from the serialization of a message of any
\* request or response class has the type of the message and data equal to
\* its data.
C28_RoundTrip ==
    codec.phase = "deserialized" =>
        /\ codec.out.cls /= "ValueError"
        /\ codec.out.type = codec.m.type
        /\ DataEq(codec.out.data, codec.m.data)

\* C28 witness: a StatusResponse with a current model went through; its
\* state was a string on the wire and is a DaemonState again.
C28_Witness ==
    /\ codec.phase = "deserialized"
    /\ codec.m.cls = "StatusResponse"
    /\ "current_model" \in DOMAIN codec.m.data
    /\ codec.wire.data["state"] = Py("string", PAUSED)
    /\ codec.out.data["state"] = Py("DaemonState", "PAUSED")

\* the backend of the registry that comes first among the available ones,
\* "none" when none is available
FirstAvailable(backends, avail) ==
    LET at == {i \in DOMAIN backends : backends[i] \in avail}
    IN IF at = {} THEN "none"
       ELSE backends[CHOOSE i \in at : \A j \in at : i <= j]

\* the number of times is_available of backend b was awaited
Probes(b) == Cardinality({i \in DOMAIN probe.probed : probe.probed[i] = b})

Registered(name) == \E i \in DOMAIN probe.backends : probe.backends[i] = name

\* C30: start_recording with a backend named starts the recording on that
\* backend when it is in the registry and available and fails otherwise,
\* on no other backend; with no backend named it starts the recording on
\* the first available backend of the registry.
C30_NamedBackend ==
    (probe.phase = "done" /\ probe.op = "start_recording") =>
        IF PyTruthy(probe.backend_name)
        THEN IF Registered(probe.backend_name.v)
                /\ probe.backend_name.v \in probe.avail
             THEN probe.out = "start_recording"
                  /\ probe.by = probe.backend_name.v
             ELSE probe.out = "RuntimeError" /\ probe.by = "none"
        ELSE FirstAvailable(probe.backends, probe.avail) /= "none" =>
                 /\ probe.out = "start_recording"
                 /\ probe.by = FirstAvailable(probe.backends, probe.avail)

\* C30 witness: start_recording named a registered backend that is not
\* available while the backend before it in the registry is, and failed.
C30_Witness ==
    /\ probe.phase = "done" /\ probe.op = "start_recording"
    /\ Len(probe.backends) >= 2
    /\ probe.backend_name = Py("str", probe.backends[2])
    /\ probe.backends[2] \notin probe.avail
    /\ probe.backends[1] \in probe.avail
    /\ probe.out = "RuntimeError"

\* C31: start_recording with a sample rate or a channel count that is not
\* positive fails, whichever backend it reaches, and no recorder process
\* has been spawned.
C31_ParametersValidated ==
    (/\ probe.phase = "done" /\ probe.op = "start_recording"
     /\ (probe.sample_rate <= 0 \/ probe.channels <= 0)) =>
        /\ probe.ret \in {"ValueError", "RuntimeError"}
        /\ probe.procs = 0

\* C31 witness: start_recording with zero channels reached the named
\* backend sox, which raised ValueError.
C31_Witness ==
    /\ probe.phase = "done" /\ probe.op = "start_recording"
    /\ probe.sample_rate > 0 /\ probe.channels = 0
    /\ probe.out = "start_recording" /\ probe.by = "sox"
    /\ probe.ret = "ValueError"

\* C32: once the 'async with' block of a stream has been left, by any
\* path, close() has been called, the recorder process has exited, a
\* process that was sent SIGTERM has been waited for, and no call of
\* close(), the first or a later one, has raised.
C32_ScopedClose ==
    scope.phase = "left" =>
        /\ scope.closes >= 1
        /\ scope.proc = "exited"
        /\ scope.terminates >= 1 => scope.waited
        /\ scope.terminates <= 1
        /\ scope.raised = "none"

\* C32 witness: the body raised after one chunk while the recorder was
\* running; close() sent SIGTERM and waited, and a second close() on the
\* exited process raised nothing.
C32_Witness ==
    /\ scope.phase = "left" /\ scope.path = "body_raises"
    /\ scope.chunks = 1 /\ scope.terminates = 1 /\ scope.waited
    /\ scope.closes = 2 /\ scope.raised = "none"

\* the step is a send_message call of the client
Sends == client.phase = "made" /\ client'.sends = client.sends + 1

\* C33: a send_message made with no connection held attempts to connect;
\* when the socket is absent or refuses, it raises ConnectionError, returns
\* no response and leaves the client with no connection held; made with a
\* connection held it attempts none.
C33_LazyConnect ==
    [][Sends =>
          IF client.held THEN client'.connects = client.connects
          ELSE /\ client'.connects = client.connects + 1
               /\ client.socket /= "listening" =>
                      /\ client'.last = "ConnectionError"
                      /\ ~client'.held
                      /\ client'.failed = client.failed + 1]_vars

\* C33 witness: a first send_message failed to connect and the second one
\* connected again and obtained a response.
C33_Witness ==
    /\ client.phase = "made" /\ client.sends = 2
    /\ client.connects = 2 /\ client.failed = 1
    /\ client.last \in Replies

\* C34: a send_message obtains a response exactly when the connection it
\* uses is fresh, that is, connected by this call or held with no request
\* sent on it yet; after the response the server's end is closed, and a
\* send_message on that connection obtains none.
C34_OneExchangePerConnection ==
    [][Sends =>
          /\ client'.last \in Replies <=>
                 \/ ~client.held /\ client.socket = "listening"
                 \/ client.held /\ client.peer = "open"
          /\ client'.last \in Replies => client'.peer = "closed"
          /\ (client.held /\ client.peer = "closed") =>
                 client'.last \in DeadConnection /\ client'.held]_vars

\* C34 witness: the second send_message on the connection of the first one
\* met the end of the stream.
C34_Witness ==
    /\ client.phase = "made" /\ client.sends = 2 /\ client.connects = 1
    /\ client.failed = 0 /\ client.held
    /\ client.last = "IncompleteReadError"

\* the step returns the Error response of a StartRecording request that
\* failed (one rejected with 409 did not fail: a recording is in progress)
StartRecordingFails ==
    /\ resp'.op = "start_recording"
    /\ resp'.out = "error"
    /\ resp'.code /= 409

\* C35: a StartRecording request that fails (device not found, code 404; no
\* backend available; start_recording raising) returns an Error response
\* and sets no current stream and leaves no recorder process: the stream
\* and the live recorders are what they were, and with no stream held
\* before the failure none is held after it, so that the next StartRecording
\* is not rejected.
C35_FailedStartLeavesNoStream ==
    [][StartRecordingFails =>
          /\ UNCHANGED <<current_stream, alive, spawned>>
          /\ ~RecordingActive => current_stream' = None
          /\ \E t \in Tasks : pc[t] /= "idle" /\ pc'[t] = "idle"]_vars

\* C35 witness: the request failed starting the recorder, after the lookup
\* of a device that exists, and no stream is held.
C35_Witness ==
    /\ resp.kind = "cont" /\ resp.op = "start_recording"
    /\ resp.out = "error" /\ resp.code = 1
    /\ current_stream = None /\ alive = {} /\ spawned = 0
    /\ \A t \in Tasks : pc[t] = "idle"

\* C36: whenever the state is RUNNING or PAUSED the PID file holds the
\* daemon's own process id, a server of the daemon is listening and the
\* socket file it is bound to exists, in every interleaving of the calls.
C36_RunningHasPidAndListener ==
    state \in {RUNNING, PAUSED} =>
        /\ pid_file = Str(GetPid)
        /\ ListenerOpen
        /\ socket_file /= None

\* C37: whenever no start() or stop() is in progress the state is STOPPED,
\* RUNNING or PAUSED; a start() that has just raised left the state STOPPED
\* and the PID file as it found it.
C37_TransientStates ==
    (\A t \in Tasks : pc[t] = "idle") =>
        /\ state \in {STOPPED, RUNNING, PAUSED}
        /\ (/\ ev.op = "start"
            /\ ev.out \notin {"ok", "suspended"}
            /\ ev.from = STOPPED) =>
               /\ state = STOPPED
               /\ pid_file = ev.pidf

\* C38: when a start() completes, on a fresh daemon or after a stop(),
\* get_uptime() is the time since that start: nothing paused before the
\* restart is subtracted from the new run.
C38_UptimeAfterRestart ==
    (ev.kind = "cont" /\ ev.op = "start" /\ state = RUNNING) =>
        get_uptime = now - start_time[1]

\* C39: once a start() of this daemon was refused with SingleInstanceError
\* for the PID file of the live peer, no step of the daemon deletes or
\* overwrites that file.
C39_RefusedKeepsPeerPidFile ==
    [][(refused /\ pid_file = Str(PeerPid)) =>
           pid_file' = Str(PeerPid)]_vars

====
